---- MODULE Spec2Model ----
(***************************************************************************)
(* Motion control engine of the polar-alignment stepper controller.        *)
(*                                                                         *)
(* The concurrent part models class StepperController of                   *)
(* src/mod_2_test.py: the shared motion state, the mutex _lock, the        *)
(* background _continuous_movement_loop and the public operations, each    *)
(* split at the points where another thread can run (lock acquisition,     *)
(* the sleep inside a pulse, the unlocked reads of the pulse loop).        *)
(* The pure part models the position store (load_position of the three     *)
(* variants) and the unit converter (arc_to_steps / steps_to_arc).         *)
(***************************************************************************)
EXTENDS Integers, Sequences, FiniteSets, TLC

(***************************************************************************)
(* Bounds of the model.  The travel limit, the ramp length and the batch   *)
(* size are scaled down from the source values (1_320_000, 8 and 50) so    *)
(* that the limit is reached within a few pulses.                          *)
(***************************************************************************)
MAX_STEPS == 2

RAMP_PULSES == 2

BATCH_PULSES == 2

MaxStepArg == 3

Callers == {"t1", "t2"}

LoopThread == "loop"

\* the thread that runs main() and, at the end, shutdown()
MainThread == "main"

Threads == Callers \cup {LoopThread, MainThread}

NoThread == "none"

Directions == {-1, 1}

\* speed settings in tenths (0.1 and 0.9; the joystick thread always passes 0.9)
SpeedSettings == {1, 9}

Abs(x) == IF x < 0 THEN -x ELSE x

Sign(x) == IF x > 0 THEN 1 ELSE IF x < 0 THEN -1 ELSE 0

Clamp(x) == IF x > MAX_STEPS THEN MAX_STEPS ELSE IF x < -MAX_STEPS THEN -MAX_STEPS ELSE x

HIGH == TRUE

LOW == FALSE

\* microstep mode pins (MODE_PIN_1, MODE_PIN_2, MODE_PIN_3)
QuarterStep == <<LOW, HIGH, LOW>>

SixteenthStep == <<HIGH, HIGH, HIGH>>

DirLevel(d) == IF d > 0 THEN HIGH ELSE LOW

(***************************************************************************)
(* Position store: the file holds text.  str() and int() are modelled on   *)
(* characters so that a save followed by a load is a real round trip.      *)
(***************************************************************************)
\* a missing file: a value that is no text the alphabet can spell
Absent == <<"(no file)">>

DigitChars == <<"0", "1", "2", "3", "4", "5", "6", "7", "8", "9">>

DigitValue(c) == CHOOSE i \in 0..9 : DigitChars[i + 1] = c

IsDigit(c) == \E i \in 1..10 : DigitChars[i] = c

RECURSIVE NatToStr(_)
NatToStr(n) == IF n < 10 THEN <<DigitChars[n + 1]>>
               ELSE Append(NatToStr(n \div 10), DigitChars[(n % 10) + 1])

\* str(position)
IntToStr(n) == IF n < 0 THEN <<"-">> \o NatToStr(-n) ELSE NatToStr(n)

IsSpace(c) == c = " "

RECURSIVE LStrip(_)
LStrip(s) == IF s # <<>> /\ IsSpace(Head(s)) THEN LStrip(Tail(s)) ELSE s

RECURSIVE RStrip(_)
RStrip(s) == IF s # <<>> /\ IsSpace(s[Len(s)]) THEN RStrip(SubSeq(s, 1, Len(s) - 1)) ELSE s

\* str.strip()
Strip(s) == RStrip(LStrip(s))

RECURSIVE DigitsValue(_, _)
DigitsValue(s, acc) == IF s = <<>> THEN acc
                       ELSE DigitsValue(Tail(s), 10 * acc + DigitValue(Head(s)))

AllDigits(s) == s # <<>> /\ \A i \in 1..Len(s) : IsDigit(s[i])

RECURSIVE Power10(_)
Power10(n) == IF n = 0 THEN 1 ELSE 10 * Power10(n - 1)

\* int(text): surrounding whitespace is ignored, one optional sign, then digits;
\* anything else raises ValueError
ParseInt(text) ==
    LET s == Strip(text)
        signed == s # <<>> /\ Head(s) \in {"-", "+"}
        body == IF signed THEN Tail(s) ELSE s
    IN  IF AllDigits(body)
        THEN [ok |-> TRUE,
              value |-> IF signed /\ Head(s) = "-" THEN -DigitsValue(body, 0)
                        ELSE DigitsValue(body, 0)]
        ELSE [ok |-> FALSE, value |-> 0]

(***************************************************************************)
(* load_position: the three variants.  An outcome is a returned value or   *)
(* the exception that left the function.                                   *)
(***************************************************************************)
Returned(v) == [raised |-> "none", value |-> v]

Raised(e) == [raised |-> e, value |-> 0]

\* open(path) ... int(f.read().strip()), with no handler around it
ReadInt(file) ==
    IF file = Absent THEN Raised("FileNotFoundError")
    ELSE LET r == ParseInt(Strip(file))
         IN  IF r.ok THEN Returned(r.value) ELSE Raised("ValueError")

StepperController_load_position_NoValueError(file) ==
    LET r == ReadInt(file)
    IN  IF r.raised = "FileNotFoundError" THEN Returned(0) ELSE r

\* mod_2_test.py _load_position: ValueError, FileNotFoundError and any other
\* exception give 0
StepperController_load_position(file) ==
    LET r == ReadInt(file)
    IN  IF r.raised # "none" THEN Returned(0) ELSE r

\* mod_1.py load_position creates the file with "0" when it is missing ...
load_position_file(file) == IF file = Absent THEN IntToStr(0) ELSE file

\* ... and then reads it; ValueError gives 0
load_position(file) ==
    LET r == ReadInt(load_position_file(file))
    IN  IF r.raised = "ValueError" THEN Returned(0) ELSE r

\* stepper-server.py _load_position: 0 when the file does not exist, else
\* int(f.read()) with ValueError giving 0
Server_load_position(file) ==
    IF file = Absent THEN Returned(0)
    ELSE LET r == ParseInt(file)
         IN  IF r.ok THEN Returned(r.value) ELSE Returned(0)

(***************************************************************************)
(* Unit converter (mod_2_test.py 82-86 and 248-261, mod_1.py 53-57 and     *)
(* 232-244).  The source computes in floating point; the model computes    *)
(* the same expressions on exact fractions n/d.                            *)
(***************************************************************************)
RECURSIVE GCD(_, _)
GCD(a, b) == IF b = 0 THEN a ELSE GCD(b, a % b)

\* int(800 * 10 * 0.96)
STEPS_PER_REV_CALC == 7680

LEAD_SCREW_TRAVEL_PER_REV == 8

GEAR_RATIO == 45

\* STEPS_PER_MM = STEPS_PER_REV_CALC / LEAD_SCREW_TRAVEL_PER_REV
STEPS_PER_MM == <<STEPS_PER_REV_CALC, LEAD_SCREW_TRAVEL_PER_REV>>

\* ARCSECONDS_PER_MM = (3600 * 360) / (LEAD_SCREW_TRAVEL_PER_REV * 45)
ARCSECONDS_PER_MM == <<3600 * 360, LEAD_SCREW_TRAVEL_PER_REV * GEAR_RATIO>>

\* STEPS_PER_ARCSECOND = STEPS_PER_MM / ARCSECONDS_PER_MM, in lowest terms
STEPS_PER_ARCSECOND ==
    LET n == STEPS_PER_MM[1] * ARCSECONDS_PER_MM[2]
        d == STEPS_PER_MM[2] * ARCSECONDS_PER_MM[1]
        g == GCD(n, d)
    IN  <<n \div g, d \div g>>

\* round(n / d) for n >= 0, d > 0: Python rounds halves to the even integer
Round(n, d) ==
    LET q == n \div d
        r == n % d
    IN  IF 2 * r > d \/ (2 * r = d /\ q % 2 = 1) THEN q + 1 ELSE q

arc_to_steps_DecimalMinutes(num, den) ==
    LET total_sec == Abs(num) * 60
        steps == Round(total_sec * STEPS_PER_ARCSECOND[1], den * STEPS_PER_ARCSECOND[2])
    IN  IF num >= 0 THEN steps ELSE -steps

\* arc_to_steps(num / den): the integer part is arcminutes, the fraction times
\* 100 is arcseconds
arc_to_steps(num, den) ==
    LET arcmin == Abs(num) \div den                         \* int(abs(arcmin_sec))
        arcsec == (Abs(num) - arcmin * den) * 100           \* over den
        total_sec == arcmin * 60 * den + arcsec             \* over den
        steps == Round(total_sec * STEPS_PER_ARCSECOND[1], den * STEPS_PER_ARCSECOND[2])
    IN  IF num >= 0 THEN steps ELSE -steps

\* a variant that converts the signed count (no abs)
steps_to_arc_Signed(steps) ==
    LET n == STEPS_PER_ARCSECOND[1]
        arcseconds == steps * STEPS_PER_ARCSECOND[2]
    IN  [arcminutes |-> arcseconds \div (60 * n),
         arcsec |-> <<arcseconds % (60 * n), n>>]

steps_to_arc_NoModulo(steps) ==
    LET n == STEPS_PER_ARCSECOND[1]
        arcseconds == Abs(steps) * STEPS_PER_ARCSECOND[2]
    IN  [arcminutes |-> arcseconds \div (60 * n), arcsec |-> <<arcseconds, n>>]

\* steps_to_arc(steps) = (arcminutes, arcsec), arcsec a fraction <<n, d>>
steps_to_arc(steps) ==
    LET n == STEPS_PER_ARCSECOND[1]
        arcseconds == Abs(steps) * STEPS_PER_ARCSECOND[2]   \* over n
    IN  [arcminutes |-> arcseconds \div (60 * n),           \* int(arcseconds // 60)
         arcsec |-> <<arcseconds % (60 * n), n>>]           \* arcseconds % 60

VARIABLES
    current_position,      \* StepCount
    continuous_active,
    continuous_direction,
    continuous_delay,      \* microseconds
    half_speed_mode,
    last_joystick_dir,
    motor_enabled,         \* written only by the server variant's enable() / disable()
    enable_pin,
    dir_pin,
    step_pin,
    mode_pins,
    pwm_duty,
    position_file,         \* content of step_position.txt, or Absent
    lock,                  \* holder of _lock, or NoThread
    pc,                    \* position of every thread
    loc,                   \* locals of the operation a caller is running
    lp_direction,          \* the pulse loop's local `direction` (0 outside an iteration)
    overlapped,            \* history: a move_steps call arrived while this caller was moving
    probe                  \* input and result of a pure function under check

vars == <<current_position, continuous_active, continuous_direction, continuous_delay,
          half_speed_mode, last_joystick_dir, motor_enabled, enable_pin, dir_pin, step_pin, mode_pins,
          pwm_duty, position_file, lock, pc, loc, lp_direction, overlapped, probe>>

motion == <<continuous_active, continuous_direction, continuous_delay, half_speed_mode>>

gpio == <<enable_pin, dir_pin, step_pin, mode_pins, pwm_duty>>

loopLocals == <<lp_direction>>

NoLocals == [steps |-> 0, dir |-> 0, speed |-> 0, half |-> FALSE,
             remaining |-> 0, start |-> 0, target |-> 0, emitted |-> 0]

NoProbe == [fn |-> "none"]

(***************************************************************************)
(* Initial state: StepperController.__init__ (mod_2_test.py 43-101).  The  *)
(* position is loaded from the file a previous run left behind.            *)
(***************************************************************************)
\* _save_position: f.write(str(self.current_position))
SavedText(position) == IntToStr(position)

PersistedAtStart == {-1, 0}

ControllerAtRest ==
    /\ continuous_active = FALSE
    /\ continuous_direction = 0
    /\ continuous_delay = 10000
    /\ half_speed_mode = FALSE
    /\ last_joystick_dir = 0
    /\ motor_enabled = FALSE
    /\ enable_pin = LOW
    /\ dir_pin = LOW
    /\ step_pin = LOW
    /\ mode_pins = QuarterStep
    /\ pwm_duty = 80
    /\ lock = NoThread
    /\ pc = [t \in Threads |-> CASE t = LoopThread -> "lp_check"
                                [] t = MainThread -> "main_join"
                                [] OTHER -> "idle"]
    /\ loc = [t \in Callers |-> NoLocals]
    /\ lp_direction = 0
    /\ overlapped = [t \in Callers |-> FALSE]

InitController ==
    /\ \E p \in PersistedAtStart :
          /\ position_file = SavedText(p)
          /\ current_position = StepperController_load_position(position_file).value
    /\ ControllerAtRest

Init == InitController /\ probe = NoProbe

(***************************************************************************)
(* The mutex: `with self._lock:` blocks until the lock is free.            *)
(***************************************************************************)
CanAcquire_NoExclusion(t) == TRUE

CanAcquire(t) == lock = NoThread

WaitPcs == {"ms_wait", "mm_wait", "sc_wait", "st_wait", "gz_wait", "rp_wait"}

EntryPc(w) ==
    CASE w = "ms_wait" -> "ms_setup"
      [] w = "mm_wait" -> "mm_setup"
      [] w = "sc_wait" -> "sc_check"
      [] w = "st_wait" -> "st_body"
      [] w = "gz_wait" -> "gz_setup"
      [] w = "rp_wait" -> "rp_body"

ReturnPcs == {"ms_ret", "mm_ret", "sc_ret", "sc_skip", "st_ret", "gz_ret", "rp_ret"}

MoveStepsPcs == {"ms_setup", "ms_loop", "ms_high", "ms_ret"}

MoveStepsInProgress == {"ms_setup", "ms_loop", "ms_high"}

\* a thread at one of these is inside the sleep of a pulse (STEP is HIGH)
PulseWaitPcs == {"ms_high", "mm_high", "sc_high", "gz_high", "lp_high"}

\* a caller enters `with self._lock:` of the operation it called
Acquire(t) ==
    /\ pc[t] \in WaitPcs
    /\ CanAcquire(t)
    /\ lock' = t
    /\ pc' = [pc EXCEPT ![t] = EntryPc(pc[t])]
    /\ UNCHANGED <<current_position, motion, last_joystick_dir, motor_enabled, gpio, position_file,
                   loc, loopLocals, overlapped, probe>>

\* a variant in which the lock is not released at the end of the block
Return_KeepsLock(t) ==
    /\ pc[t] \in ReturnPcs
    /\ pc' = [pc EXCEPT ![t] = "idle"]
    /\ loc' = [loc EXCEPT ![t] = NoLocals]
    /\ overlapped' = [overlapped EXCEPT ![t] = FALSE]
    /\ UNCHANGED <<current_position, motion, last_joystick_dir, motor_enabled, gpio, position_file,
                   lock, loopLocals, probe>>

\* the with-block ends (normally or by `return`) and the call returns
Return(t) ==
    /\ pc[t] \in ReturnPcs
    /\ lock' = IF lock = t THEN NoThread ELSE lock
    /\ pc' = [pc EXCEPT ![t] = "idle"]
    /\ loc' = [loc EXCEPT ![t] = NoLocals]
    /\ overlapped' = [overlapped EXCEPT ![t] = FALSE]
    /\ UNCHANGED <<current_position, motion, last_joystick_dir, motor_enabled, gpio, position_file,
                   loopLocals, probe>>

(***************************************************************************)
(* move_steps (mod_2_test.py 192-238)                                      *)
(***************************************************************************)
StepArgs == (-MaxStepArg)..MaxStepArg

CallMoveSteps(t) ==
    /\ pc[t] = "idle"
    /\ \E n \in StepArgs : loc' = [loc EXCEPT ![t] = [NoLocals EXCEPT !.steps = n]]
    /\ pc' = [pc EXCEPT ![t] = "ms_wait"]
    /\ overlapped' = [c \in Callers |->
                        IF c # t /\ lock = c /\ pc[c] \in MoveStepsInProgress
                                  /\ loc[c].steps # 0
                        THEN TRUE
                        ELSE overlapped[c]]
    /\ UNCHANGED <<current_position, motion, last_joystick_dir, motor_enabled, gpio, position_file,
                   lock, loopLocals, probe>>

\* lines 195-216
MoveStepsSetup(t) ==
    /\ pc[t] = "ms_setup"
    /\ LET step_direction == IF loc[t].steps > 0 THEN 1 ELSE -1
       IN  /\ dir_pin' = DirLevel(step_direction)
           /\ loc' = [loc EXCEPT ![t] = [@ EXCEPT !.dir = step_direction,
                                                  !.target = current_position + loc[t].steps,
                                                  !.start = current_position,
                                                  !.remaining = Abs(loc[t].steps),
                                                  !.emitted = 0]]
    /\ enable_pin' = HIGH
    /\ pwm_duty' = 90
    /\ pc' = [pc EXCEPT ![t] = "ms_loop"]
    /\ UNCHANGED <<current_position, motion, last_joystick_dir, motor_enabled, step_pin, mode_pins,
                   position_file, lock, loopLocals, overlapped, probe>>

\* lines 220-221
MoveStepsTargetReached(position, direction, target) ==
    \/ direction > 0 /\ position >= target
    \/ direction < 0 /\ position <= target

MoveStepsLimitHit_NoCheck(position, direction) == FALSE

\* a variant in which a counter at the limit refuses every further step
MoveStepsLimitHit_Latching(position, direction) ==
    Abs(position) >= MAX_STEPS \/ Abs(position + direction) > MAX_STEPS

MoveStepsLimitHit_OffByOne(position, direction) == Abs(position + direction) >= MAX_STEPS

\* line 225
MoveStepsLimitHit(position, direction) == Abs(position + direction) > MAX_STEPS

\* a variant that counts the step when STEP is driven HIGH
MoveStepsLoop_CountsEarly(t) ==
    /\ pc[t] = "ms_loop"
    /\ IF \/ loc[t].remaining = 0
          \/ MoveStepsTargetReached(current_position, loc[t].dir, loc[t].target)
          \/ MoveStepsLimitHit(current_position, loc[t].dir)
       THEN /\ pc' = [pc EXCEPT ![t] = "ms_ret"]
            /\ UNCHANGED <<step_pin, current_position>>
       ELSE /\ step_pin' = HIGH
            /\ current_position' = current_position + loc[t].dir
            /\ pc' = [pc EXCEPT ![t] = "ms_high"]
    /\ UNCHANGED <<motion, last_joystick_dir, motor_enabled, enable_pin, dir_pin,
                   mode_pins, pwm_duty, position_file, lock, loc, loopLocals,
                   overlapped, probe>>

\* lines 218-229: one evaluation of the loop head and the checks, up to STEP HIGH
MoveStepsLoop(t) ==
    /\ pc[t] = "ms_loop"
    /\ IF \/ loc[t].remaining = 0
          \/ MoveStepsTargetReached(current_position, loc[t].dir, loc[t].target)
          \/ MoveStepsLimitHit(current_position, loc[t].dir)
       THEN /\ pc' = [pc EXCEPT ![t] = "ms_ret"]
            /\ UNCHANGED step_pin
       ELSE /\ step_pin' = HIGH
            /\ pc' = [pc EXCEPT ![t] = "ms_high"]
    /\ UNCHANGED <<current_position, motion, last_joystick_dir, motor_enabled, enable_pin, dir_pin,
                   mode_pins, pwm_duty, position_file, lock, loc, loopLocals,
                   overlapped, probe>>

\* lines 230-234: the pulse width has elapsed; STEP LOW, second sleep, count the step
MoveStepsPulse(t) ==
    /\ pc[t] = "ms_high"
    /\ step_pin' = LOW
    /\ current_position' = current_position + loc[t].dir
    /\ loc' = [loc EXCEPT ![t] = [@ EXCEPT !.remaining = @ - 1, !.emitted = @ + 1]]
    /\ pc' = [pc EXCEPT ![t] = "ms_loop"]
    /\ UNCHANGED <<motion, last_joystick_dir, motor_enabled, enable_pin, dir_pin, mode_pins, pwm_duty,
                   position_file, lock, loopLocals, overlapped, probe>>

MoveSteps(t) ==
    \/ CallMoveSteps(t)
    \/ MoveStepsSetup(t)
    \/ MoveStepsLoop(t)
    \/ MoveStepsPulse(t)

(***************************************************************************)
(* move_motor (mod_2_test.py 124-190)                                      *)
(***************************************************************************)
CallMoveMotor(t) ==
    /\ pc[t] = "idle"
    /\ \E d \in Directions :
          loc' = [loc EXCEPT ![t] = [NoLocals EXCEPT !.dir = d]]
    /\ pc' = [pc EXCEPT ![t] = "mm_wait"]
    /\ UNCHANGED <<current_position, motion, last_joystick_dir, motor_enabled, gpio, position_file,
                   lock, loopLocals, overlapped, probe>>

\* lines 131-169
MoveMotorSetup(t) ==
    /\ pc[t] = "mm_setup"
    /\ IF loc[t].dir # last_joystick_dir
       THEN /\ enable_pin' = HIGH
            /\ dir_pin' = DirLevel(loc[t].dir)
            /\ last_joystick_dir' = loc[t].dir
       ELSE UNCHANGED <<enable_pin, dir_pin, last_joystick_dir>>
    /\ UNCHANGED motor_enabled
    /\ loc' = [loc EXCEPT ![t] = [@ EXCEPT !.remaining = BATCH_PULSES,
                                           !.start = current_position,
                                           !.emitted = 0]]
    /\ pc' = [pc EXCEPT ![t] = "mm_loop"]
    /\ UNCHANGED <<current_position, motion, step_pin, mode_pins, pwm_duty,
                   position_file, lock, loopLocals, overlapped, probe>>

\* line 176
MoveMotorLimitHit(position, direction) == Abs(position + direction) > MAX_STEPS

\* lines 174-181
MoveMotorLoop(t) ==
    /\ pc[t] = "mm_loop"
    /\ IF loc[t].remaining = 0 \/ MoveMotorLimitHit(current_position, loc[t].dir)
       THEN /\ pc' = [pc EXCEPT ![t] = "mm_ret"]
            /\ UNCHANGED step_pin
       ELSE /\ step_pin' = HIGH
            /\ pc' = [pc EXCEPT ![t] = "mm_high"]
    /\ UNCHANGED <<current_position, motion, last_joystick_dir, motor_enabled, enable_pin, dir_pin,
                   mode_pins, pwm_duty, position_file, lock, loc, loopLocals,
                   overlapped, probe>>

\* lines 182-187
MoveMotorPulse(t) ==
    /\ pc[t] = "mm_high"
    /\ step_pin' = LOW
    /\ current_position' = current_position + loc[t].dir
    /\ loc' = [loc EXCEPT ![t] = [@ EXCEPT !.remaining = @ - 1, !.emitted = @ + 1]]
    /\ pc' = [pc EXCEPT ![t] = "mm_loop"]
    /\ UNCHANGED <<motion, last_joystick_dir, motor_enabled, enable_pin, dir_pin, mode_pins, pwm_duty,
                   position_file, lock, loopLocals, overlapped, probe>>

MoveMotor(t) ==
    \/ CallMoveMotor(t)
    \/ MoveMotorSetup(t)
    \/ MoveMotorLoop(t)
    \/ MoveMotorPulse(t)

(***************************************************************************)
(* start_continuous_movement (mod_2_test.py 277-336) and                   *)
(* _calculate_manual_delay (338-363)                                       *)
(***************************************************************************)
\* delay in microseconds for a speed setting in tenths
CalculateManualDelay(speed, half_speed) ==
    LET speed_value == IF speed < 1 THEN 1 ELSE IF speed > 10 THEN 10 ELSE speed
        effective_speed == 10 + 9 * speed_value          \* hundredths
        raw == IF half_speed THEN (4 * 50000) \div effective_speed
               ELSE 50000 \div effective_speed
    IN  IF raw < 150 THEN 150 ELSE IF raw > 10000 THEN 10000 ELSE raw

\* the model stops issuing start commands once the counter is this far out
PositionCap == MAX_STEPS

CallStartContinuous(t) ==
    /\ pc[t] = "idle"
    /\ Abs(current_position) <= PositionCap
    /\ \E d \in Directions, sp \in SpeedSettings, h \in BOOLEAN :
          loc' = [loc EXCEPT ![t] = [NoLocals EXCEPT !.dir = d, !.speed = sp, !.half = h]]
    /\ pc' = [pc EXCEPT ![t] = "sc_wait"]
    /\ UNCHANGED <<current_position, motion, last_joystick_dir, motor_enabled, gpio, position_file,
                   lock, loopLocals, overlapped, probe>>

AlreadyMoving_NoCheck(direction, half_speed) == FALSE

\* lines 281-284
AlreadyMoving(direction, half_speed) ==
    /\ continuous_active
    /\ continuous_direction = direction
    /\ half_speed_mode = half_speed

\* lines 281-323
StartContinuousCheck(t) ==
    /\ pc[t] = "sc_check"
    /\ IF AlreadyMoving(loc[t].dir, loc[t].half)
       THEN /\ pc' = [pc EXCEPT ![t] = "sc_skip"]
            /\ UNCHANGED <<motion, enable_pin, dir_pin, mode_pins, pwm_duty, loc>>
       ELSE /\ half_speed_mode' = loc[t].half
            /\ pwm_duty' = IF loc[t].half THEN 50 ELSE 85
            /\ mode_pins' = IF loc[t].half THEN SixteenthStep ELSE QuarterStep
            /\ enable_pin' = HIGH
            /\ dir_pin' = DirLevel(loc[t].dir)
            /\ continuous_direction' = loc[t].dir
            /\ continuous_delay' = CalculateManualDelay(loc[t].speed, loc[t].half)
            /\ continuous_active' = TRUE
            /\ loc' = [loc EXCEPT ![t] = [@ EXCEPT !.remaining = RAMP_PULSES,
                                                   !.start = current_position,
                                                   !.emitted = 0]]
            /\ pc' = [pc EXCEPT ![t] = "sc_ramp"]
    /\ UNCHANGED <<current_position, last_joystick_dir, motor_enabled, step_pin, position_file, lock,
                   loopLocals, overlapped, probe>>

\* lines 329-332: the ramp-up loop head, up to STEP HIGH
StartContinuousRamp(t) ==
    /\ pc[t] = "sc_ramp"
    /\ IF loc[t].remaining = 0
       THEN /\ pc' = [pc EXCEPT ![t] = "sc_ret"]
            /\ UNCHANGED step_pin
       ELSE /\ step_pin' = HIGH
            /\ pc' = [pc EXCEPT ![t] = "sc_high"]
    /\ UNCHANGED <<current_position, motion, last_joystick_dir, motor_enabled, enable_pin, dir_pin,
                   mode_pins, pwm_duty, position_file, lock, loc, loopLocals,
                   overlapped, probe>>

\* lines 333-336
StartContinuousPulse(t) ==
    /\ pc[t] = "sc_high"
    /\ step_pin' = LOW
    /\ current_position' = current_position + loc[t].dir
    /\ loc' = [loc EXCEPT ![t] = [@ EXCEPT !.remaining = @ - 1, !.emitted = @ + 1]]
    /\ pc' = [pc EXCEPT ![t] = "sc_ramp"]
    /\ UNCHANGED <<motion, last_joystick_dir, motor_enabled, enable_pin, dir_pin, mode_pins, pwm_duty,
                   position_file, lock, loopLocals, overlapped, probe>>

StartContinuous(t) ==
    \/ CallStartContinuous(t)
    \/ StartContinuousCheck(t)
    \/ StartContinuousRamp(t)
    \/ StartContinuousPulse(t)

(***************************************************************************)
(* stop_continuous_movement (mod_2_test.py 365-380)                        *)
(***************************************************************************)
CallStopContinuous(t) ==
    /\ pc[t] = "idle"
    /\ pc' = [pc EXCEPT ![t] = "st_wait"]
    /\ loc' = [loc EXCEPT ![t] = NoLocals]
    /\ UNCHANGED <<current_position, motion, last_joystick_dir, motor_enabled, gpio, position_file,
                   lock, loopLocals, overlapped, probe>>

StopContinuousBody(t) ==
    /\ pc[t] = "st_body"
    /\ IF continuous_active
       THEN /\ continuous_active' = FALSE
            /\ enable_pin' = LOW
            /\ mode_pins' = QuarterStep
            /\ pwm_duty' = 80
       ELSE UNCHANGED <<continuous_active, enable_pin, mode_pins, pwm_duty>>
    /\ pc' = [pc EXCEPT ![t] = "st_ret"]
    /\ UNCHANGED <<current_position, continuous_direction, continuous_delay,
                   half_speed_mode, last_joystick_dir, motor_enabled, dir_pin, step_pin, position_file,
                   lock, loc, loopLocals, overlapped, probe>>

StopContinuous(t) ==
    \/ CallStopContinuous(t)
    \/ StopContinuousBody(t)

(***************************************************************************)
(* go_to_zero (mod_2_test.py 436-497)                                      *)
(***************************************************************************)
CallGoToZero(t) ==
    /\ pc[t] = "idle"
    /\ pc' = [pc EXCEPT ![t] = "gz_wait"]
    /\ loc' = [loc EXCEPT ![t] = NoLocals]
    /\ UNCHANGED <<current_position, motion, last_joystick_dir, motor_enabled, gpio, position_file,
                   lock, loopLocals, overlapped, probe>>

\* lines 440-475
GoToZeroSetup(t) ==
    /\ pc[t] = "gz_setup"
    /\ continuous_active' = FALSE
    /\ LET steps_to_move == -current_position
           direction == IF steps_to_move > 0 THEN 1 ELSE -1
       IN  /\ dir_pin' = DirLevel(direction)
           /\ loc' = [loc EXCEPT ![t] = [@ EXCEPT !.steps = steps_to_move,
                                                  !.dir = direction,
                                                  !.start = current_position,
                                                  !.remaining = Abs(steps_to_move),
                                                  !.emitted = 0]]
    /\ enable_pin' = HIGH
    /\ pwm_duty' = 85
    /\ mode_pins' = QuarterStep
    /\ pc' = [pc EXCEPT ![t] = "gz_loop"]
    /\ UNCHANGED <<current_position, continuous_direction, continuous_delay,
                   half_speed_mode, last_joystick_dir, motor_enabled, step_pin, position_file, lock,
                   loopLocals, overlapped, probe>>

\* lines 476-477: the loop head, up to STEP HIGH
GoToZeroLoop(t) ==
    /\ pc[t] = "gz_loop"
    /\ IF loc[t].remaining = 0
       THEN /\ pc' = [pc EXCEPT ![t] = "gz_finish"]
            /\ UNCHANGED step_pin
       ELSE /\ step_pin' = HIGH
            /\ pc' = [pc EXCEPT ![t] = "gz_high"]
    /\ UNCHANGED <<current_position, motion, last_joystick_dir, motor_enabled, enable_pin, dir_pin,
                   mode_pins, pwm_duty, position_file, lock, loc, loopLocals,
                   overlapped, probe>>

\* lines 478-484
GoToZeroPulse(t) ==
    /\ pc[t] = "gz_high"
    /\ step_pin' = LOW
    /\ current_position' = current_position + loc[t].dir
    /\ loc' = [loc EXCEPT ![t] = [@ EXCEPT !.remaining = @ - 1,
                                           !.emitted = @ + 1]]
    /\ pc' = [pc EXCEPT ![t] = "gz_loop"]
    /\ UNCHANGED <<motion, last_joystick_dir, motor_enabled, enable_pin, dir_pin, mode_pins, pwm_duty,
                   position_file, lock, loopLocals, overlapped, probe>>

\* lines 490-495: force the counter to zero, save, disable
GoToZeroFinish(t) ==
    /\ pc[t] = "gz_finish"
    /\ current_position' = 0
    /\ position_file' = SavedText(current_position')
    /\ enable_pin' = LOW
    /\ pc' = [pc EXCEPT ![t] = "gz_ret"]
    /\ UNCHANGED <<motion, last_joystick_dir, motor_enabled, dir_pin, step_pin, mode_pins, pwm_duty,
                   lock, loc, loopLocals, overlapped, probe>>

GoToZero(t) ==
    \/ CallGoToZero(t)
    \/ GoToZeroSetup(t)
    \/ GoToZeroLoop(t)
    \/ GoToZeroPulse(t)
    \/ GoToZeroFinish(t)

(***************************************************************************)
(* reset_position (mod_2_test.py 240-246)                                  *)
(***************************************************************************)
CallResetPosition(t) ==
    /\ pc[t] = "idle"
    /\ pc' = [pc EXCEPT ![t] = "rp_wait"]
    /\ loc' = [loc EXCEPT ![t] = NoLocals]
    /\ UNCHANGED <<current_position, motion, last_joystick_dir, motor_enabled, gpio, position_file,
                   lock, loopLocals, overlapped, probe>>

\* a variant that also stops the motor, as stop_continuous_movement does
ResetPositionBody_Disables(t) ==
    /\ pc[t] = "rp_body"
    /\ current_position' = 0
    /\ position_file' = SavedText(current_position')
    /\ continuous_active' = FALSE
    /\ enable_pin' = LOW
    /\ pc' = [pc EXCEPT ![t] = "rp_ret"]
    /\ UNCHANGED <<continuous_direction, continuous_delay, half_speed_mode,
                   last_joystick_dir, motor_enabled, dir_pin, step_pin, mode_pins,
                   pwm_duty, lock, loc, loopLocals, overlapped, probe>>

ResetPositionBody(t) ==
    /\ pc[t] = "rp_body"
    /\ current_position' = 0
    /\ position_file' = SavedText(current_position')
    /\ pc' = [pc EXCEPT ![t] = "rp_ret"]
    /\ UNCHANGED <<motion, last_joystick_dir, motor_enabled, gpio, lock, loc, loopLocals, overlapped,
                   probe>>

ResetPosition(t) ==
    \/ CallResetPosition(t)
    \/ ResetPositionBody(t)

(***************************************************************************)
(* _continuous_movement_loop (mod_2_test.py 382-434), the background       *)
(* thread.  Its first test of continuous_active is made without the lock.  *)
(***************************************************************************)
\* lines 389-391: the unlocked check
LoopCheck ==
    /\ pc[LoopThread] = "lp_check"
    /\ pc' = [pc EXCEPT ![LoopThread] = IF continuous_active THEN "lp_lock1" ELSE "lp_idle"]
    /\ UNCHANGED <<current_position, motion, last_joystick_dir, motor_enabled, gpio, position_file,
                   lock, loc, loopLocals, overlapped, probe>>

\* line 390: sleep(0.005) while inactive
LoopIdleSleep ==
    /\ pc[LoopThread] = "lp_idle"
    /\ pc' = [pc EXCEPT ![LoopThread] = "lp_check"]
    /\ UNCHANGED <<current_position, motion, last_joystick_dir, motor_enabled, gpio, position_file,
                   lock, loc, loopLocals, overlapped, probe>>

\* lines 394-399: the first critical section reads the parameters and releases
LoopReadParameters ==
    /\ pc[LoopThread] = "lp_lock1"
    /\ CanAcquire(LoopThread)
    /\ IF ~continuous_active
       THEN /\ pc' = [pc EXCEPT ![LoopThread] = "lp_check"]
            /\ UNCHANGED loopLocals
       ELSE /\ lp_direction' = continuous_direction
            /\ pc' = [pc EXCEPT ![LoopThread] = "lp_timing"]
    /\ UNCHANGED <<current_position, motion, last_joystick_dir, motor_enabled, gpio, position_file,
                   lock, loc, overlapped, probe>>

\* lines 401-405 and 431-434: either the pulse is due (time_since_last >= delay),
\* or the loop sleeps and starts its next iteration.  Wall-clock time is not
\* modelled, so the local `delay` is not kept and both outcomes are possible.
LoopTiming ==
    /\ pc[LoopThread] = "lp_timing"
    /\ \E due \in BOOLEAN :
          IF due
          THEN /\ pc' = [pc EXCEPT ![LoopThread] = "lp_lock2"]
               /\ UNCHANGED loopLocals
          ELSE /\ pc' = [pc EXCEPT ![LoopThread] = "lp_check"]
               /\ lp_direction' = 0
    /\ UNCHANGED <<current_position, motion, last_joystick_dir, motor_enabled, gpio, position_file,
                   lock, loc, overlapped, probe>>

\* a variant of the pulse loop's limit test that never stops
LoopLimitHit_NoCheck(position, direction) == FALSE

\* line 409
LoopLimitHit(position, direction) == Abs(position + direction) > MAX_STEPS

\* a variant whose second critical section does not test continuous_active
\* again
LoopStepBegin_NoRecheck ==
    /\ pc[LoopThread] = "lp_lock2"
    /\ CanAcquire(LoopThread)
    /\ IF LoopLimitHit(current_position, lp_direction)
       THEN /\ continuous_active' = FALSE
            /\ enable_pin' = LOW
            /\ pc' = [pc EXCEPT ![LoopThread] = "lp_check"]
            /\ lp_direction' = 0
            /\ UNCHANGED <<step_pin, lock>>
       ELSE /\ step_pin' = HIGH
            /\ lock' = LoopThread
            /\ pc' = [pc EXCEPT ![LoopThread] = "lp_high"]
            /\ UNCHANGED <<continuous_active, enable_pin, lp_direction>>
    /\ UNCHANGED <<current_position, continuous_direction, continuous_delay,
                   half_speed_mode, last_joystick_dir, motor_enabled, dir_pin, mode_pins, pwm_duty,
                   position_file, loc, overlapped, probe>>

\* lines 406-419: the second critical section, up to STEP HIGH
LoopStepBegin ==
    /\ pc[LoopThread] = "lp_lock2"
    /\ CanAcquire(LoopThread)
    /\ IF ~continuous_active
       THEN /\ pc' = [pc EXCEPT ![LoopThread] = "lp_check"]
            /\ lp_direction' = 0
            /\ UNCHANGED <<continuous_active, enable_pin, step_pin, lock>>
       ELSE IF LoopLimitHit(current_position, lp_direction)
       THEN /\ continuous_active' = FALSE
            /\ enable_pin' = LOW
            /\ pc' = [pc EXCEPT ![LoopThread] = "lp_check"]
            /\ lp_direction' = 0
            /\ UNCHANGED <<step_pin, lock>>
       ELSE /\ step_pin' = HIGH
            /\ lock' = LoopThread
            /\ pc' = [pc EXCEPT ![LoopThread] = "lp_high"]
            /\ UNCHANGED <<continuous_active, enable_pin, lp_direction>>
    /\ UNCHANGED <<current_position, continuous_direction, continuous_delay,
                   half_speed_mode, last_joystick_dir, motor_enabled, dir_pin, mode_pins, pwm_duty,
                   position_file, loc, overlapped, probe>>

\* lines 420-425: the pulse completes, the step is counted and the lock released
LoopStepEnd ==
    /\ pc[LoopThread] = "lp_high"
    /\ step_pin' = LOW
    /\ current_position' = current_position + lp_direction
    /\ lock' = IF lock = LoopThread THEN NoThread ELSE lock
    /\ pc' = [pc EXCEPT ![LoopThread] = "lp_check"]
    /\ lp_direction' = 0
    /\ UNCHANGED <<motion, last_joystick_dir, motor_enabled, enable_pin, dir_pin, mode_pins, pwm_duty,
                   position_file, loc, overlapped, probe>>

PulseLoop ==
    \/ LoopCheck
    \/ LoopIdleSleep
    \/ LoopReadParameters
    \/ LoopTiming
    \/ LoopStepBegin
    \/ LoopStepEnd

(***************************************************************************)
(* The controller under one command thread that may call any public        *)
(* operation, next to the pulse loop.  Every operation body runs inside    *)
(* _lock, so the interleavings that matter are those with the pulse loop.  *)
(***************************************************************************)
Commander == "t1"

CallerStep(t) ==
    \/ Acquire(t)
    \/ Return(t)
    \/ MoveSteps(t)
    \/ MoveMotor(t)
    \/ StartContinuous(t)
    \/ StopContinuous(t)
    \/ GoToZero(t)
    \/ ResetPosition(t)

Next ==
    \/ CallerStep(Commander)
    \/ PulseLoop

Spec == Init /\ [][Next]_vars

(***************************************************************************)
(* Scheduling.  A thread that is inside an operation keeps running (weak   *)
(* fairness of its steps); whether and when an operation is called is up   *)
(* to the user.  A thread blocked in `with self._lock` gets the lock if it *)
(* is free again and again (strong fairness): the only competitor, the     *)
(* pulse loop, releases the lock after every pulse and then sleeps until   *)
(* the next pulse is due.                                                  *)
(***************************************************************************)
HomingStep(t) ==
    \/ Acquire(t)
    \/ Return(t)
    \/ StartContinuous(t)
    \/ StopContinuous(t)
    \/ GoToZero(t)

HomingRunning(t) ==
    \/ Return(t)
    \/ StartContinuousCheck(t) \/ StartContinuousRamp(t) \/ StartContinuousPulse(t)
    \/ StopContinuousBody(t)
    \/ GoToZeroSetup(t) \/ GoToZeroLoop(t) \/ GoToZeroPulse(t) \/ GoToZeroFinish(t)

NextHoming ==
    \/ HomingStep(Commander)
    \/ PulseLoop

HomingFairness ==
    /\ WF_vars(HomingRunning(Commander))
    /\ SF_vars(Acquire(Commander))
    /\ WF_vars(PulseLoop)

\* continuous movement (start, stop, the pulse loop) and homing, fairly scheduled
FairHoming == Init /\ [][NextHoming]_vars /\ HomingFairness

(***************************************************************************)
(* Two threads that both issue move_steps (the pulse loop stays idle, as   *)
(* continuous movement is never started).                                  *)
(***************************************************************************)
NextMoveSteps ==
    \/ \E t \in Callers : Acquire(t) \/ Return(t) \/ MoveSteps(t)
    \/ LoopCheck
    \/ LoopIdleSleep

SpecMoveSteps == Init /\ [][NextMoveSteps]_vars

(***************************************************************************)
(* The position store on its own: a file left behind by anything (a        *)
(* previous run, a crash in the middle of a write, an editor), loaded by   *)
(* one of the three variants at startup.                                   *)
(***************************************************************************)
MaxFileLen == 3

FileAlphabet == {"-", "+", "0", "7", "x", " "}

RECURSIVE TextsOfLength(_)
TextsOfLength(n) ==
    IF n = 0 THEN {<<>>}
    ELSE {Append(t, c) : t \in TextsOfLength(n - 1), c \in FileAlphabet}

FileContents == {Absent} \cup UNION {TextsOfLength(n) : n \in 0..MaxFileLen}

InitLoad ==
    /\ position_file \in FileContents
    /\ current_position = 0
    /\ ControllerAtRest
    /\ probe = NoProbe

Loaded(variant, file, outcome) ==
    /\ probe = NoProbe
    /\ probe' = [fn |-> variant, input |-> file, outcome |-> outcome]
    /\ current_position' = outcome.value
    /\ UNCHANGED <<motion, last_joystick_dir, motor_enabled, gpio, lock, pc, loc, loopLocals, overlapped>>

\* mod_2_test.py line 52: self.current_position = self._load_position()
LoadAtStartup ==
    /\ Loaded("mod_2_test", position_file, StepperController_load_position(position_file))
    /\ UNCHANGED position_file

\* mod_1.py line 74: current_position = load_position()
LoadAtStartupMod1 ==
    /\ Loaded("mod_1", position_file, load_position(position_file))
    /\ position_file' = load_position_file(position_file)

\* stepper-server.py line 46
LoadAtStartupServer ==
    /\ Loaded("stepper-server", position_file, Server_load_position(position_file))
    /\ UNCHANGED position_file

NextLoad == LoadAtStartup \/ LoadAtStartupMod1 \/ LoadAtStartupServer

SpecLoad == InitLoad /\ [][NextLoad]_vars

(***************************************************************************)
(* The unit converter on its own.                                          *)
(***************************************************************************)
ArcInputMax == 20000

ArcInputs == (-ArcInputMax)..ArcInputMax

InitArc ==
    /\ position_file = SavedText(0)
    /\ current_position = 0
    /\ ControllerAtRest
    /\ probe \in {[fn |-> "input", input |-> x] : x \in ArcInputs}

Converted(result) ==
    /\ probe.fn = "input"
    /\ probe' = result
    /\ UNCHANGED <<current_position, motion, last_joystick_dir, motor_enabled, gpio, position_file,
                   lock, pc, loc, loopLocals, overlapped>>

\* arc_to_steps applied to the two-decimal number input/100, i.e. m.ss
ConvertArcToSteps ==
    Converted([fn |-> "arc_to_steps", input |-> probe.input,
               steps |-> arc_to_steps(probe.input, 100)])

\* steps_to_arc(s), the result written back as m + sec/100 with the sign of s,
\* and arc_to_steps of that
ConvertRoundTrip ==
    LET arc == steps_to_arc(probe.input)
        den == 100 * arc.arcsec[2]
        num == arc.arcminutes * den + arc.arcsec[1]
    IN  Converted([fn |-> "round_trip", input |-> probe.input, arc |-> arc,
                   steps |-> arc_to_steps(IF probe.input < 0 THEN -num ELSE num, den)])

NextArc == ConvertArcToSteps \/ ConvertRoundTrip

SpecArc == InitArc /\ [][NextArc]_vars

(***************************************************************************)
(* shutdown (mod_2_test.py 269-275), run by the main thread in the         *)
(* `finally` of main() (785-799).  It takes no lock, does not clear        *)
(* continuous_active and waits for no other thread: the joystick thread    *)
(* and the pulse loop are daemon threads that keep running until the       *)
(* process ends, which is right after shutdown returns.                    *)
(***************************************************************************)
\* line 271: GPIO.output(self.ENABLE_PIN, GPIO.LOW)
ShutdownDisable ==
    /\ pc[MainThread] = "main_join"
    /\ enable_pin' = LOW
    /\ pc' = [pc EXCEPT ![MainThread] = "sd_pwm"]
    /\ UNCHANGED <<current_position, motion, last_joystick_dir, motor_enabled, dir_pin,
                   step_pin, mode_pins, pwm_duty, position_file, lock, loc, loopLocals,
                   overlapped, probe>>

\* line 272: self.pwm.stop()
ShutdownPwmStop ==
    /\ pc[MainThread] = "sd_pwm"
    /\ pwm_duty' = 0
    /\ pc' = [pc EXCEPT ![MainThread] = "sd_save"]
    /\ UNCHANGED <<current_position, motion, last_joystick_dir, motor_enabled, enable_pin,
                   dir_pin, step_pin, mode_pins, position_file, lock, loc, loopLocals,
                   overlapped, probe>>

\* line 273: self._save_position()
ShutdownSave ==
    /\ pc[MainThread] = "sd_save"
    /\ position_file' = SavedText(current_position)
    /\ pc' = [pc EXCEPT ![MainThread] = "sd_cleanup"]
    /\ UNCHANGED <<current_position, motion, last_joystick_dir, motor_enabled, gpio, lock,
                   loc, loopLocals, overlapped, probe>>

\* lines 274-275: GPIO.cleanup(), and shutdown returns
ShutdownCleanup ==
    /\ pc[MainThread] = "sd_cleanup"
    /\ pc' = [pc EXCEPT ![MainThread] = "sd_done"]
    /\ UNCHANGED <<current_position, motion, last_joystick_dir, motor_enabled, gpio,
                   position_file, lock, loc, loopLocals, overlapped, probe>>

Shutdown ==
    \/ ShutdownDisable
    \/ ShutdownPwmStop
    \/ ShutdownSave
    \/ ShutdownCleanup

ShutdownReturned == pc[MainThread] = "sd_done"

\* The joystick thread (start / stop of continuous movement, go_to_zero) and
\* the pulse loop run next to the main thread up to the return of shutdown.
NextShutdown ==
    \/ ~ShutdownReturned /\ HomingStep(Commander)
    \/ ~ShutdownReturned /\ PulseLoop
    \/ Shutdown

SpecShutdown == Init /\ [][NextShutdown]_vars

(***************************************************************************)
(* Saving the position (mod_2_test.py 103-109, mod_1.py 60-62) with the    *)
(* file system in view: open(path, 'w') truncates the file, the text       *)
(* arrives with the write, and the power can fail at any point.  After a   *)
(* failure the next start loads whatever the file holds.                   *)
(***************************************************************************)
MaxSaved == 12

SavedPositions == (-MaxSaved)..MaxSaved

SaveVariants == {"mod_2_test", "mod_1"}

\* the file holds the position saved before; the counter has moved on
InitSave ==
    /\ ControllerAtRest
    /\ \E old \in SavedPositions, new \in SavedPositions, v \in SaveVariants :
          /\ position_file = SavedText(old)
          /\ current_position = new
          /\ probe = [fn |-> "save", variant |-> v, stage |-> "running",
                      old |-> old, new |-> new]

SaveStage(from, to) ==
    /\ probe.fn = "save"
    /\ probe.stage = from
    /\ probe' = [probe EXCEPT !.stage = to]
    /\ UNCHANGED <<motion, last_joystick_dir, motor_enabled, gpio, lock, pc, loc,
                   loopLocals, overlapped>>

\* with open(self.POSITION_FILE, 'w') as f:
SaveOpen ==
    /\ SaveStage("running", "opened")
    /\ position_file' = <<>>
    /\ UNCHANGED current_position

\* f.write(str(self.current_position)), flushed when the with block closes the file
SaveWrite ==
    /\ SaveStage("opened", "running")
    /\ position_file' = SavedText(current_position)
    /\ UNCHANGED current_position

\* power loss or a crash, before, inside or after a save
PowerLoss ==
    /\ \E s \in {"running", "opened"} : SaveStage(s, "down")
    /\ UNCHANGED <<current_position, position_file>>

\* the next start: current_position = load_position()
Restart ==
    /\ SaveStage("down", "restarted")
    /\ current_position' =
          IF probe.variant = "mod_1" THEN load_position(position_file).value
          ELSE StepperController_load_position(position_file).value
    /\ position_file' =
          IF probe.variant = "mod_1" THEN load_position_file(position_file)
          ELSE position_file

NextSave == SaveOpen \/ SaveWrite \/ PowerLoss \/ Restart

SpecSave == InitSave /\ [][NextSave]_vars

(***************************************************************************)
(* Driver faults.  GPIO.output can raise (RuntimeError, an I/O error of    *)
(* the GPIO device).  No operation of StepperController has a handler, so  *)
(* the exception leaves the `with self._lock` block, which releases the    *)
(* lock, and reaches the caller: the input threads log it and go on        *)
(* (mod_2_test.py 623-625, 657-658); the pulse loop thread ends.  The      *)
(* fault is taken at the two driver calls of a pulse, STEP HIGH and STEP   *)
(* LOW, once in a run.                                                     *)
(***************************************************************************)
RaisedPcs == {"ms_raised", "mm_raised", "sc_raised", "gz_raised"}

\* the next statement of t is GPIO.output(STEP_PIN, HIGH) or GPIO.output(STEP_PIN, LOW)
AtStepOutput(t) ==
    \/ pc[t] \in {"ms_high", "mm_high", "sc_high", "gz_high"}
    \/ /\ pc[t] = "ms_loop"
       /\ loc[t].remaining > 0
       /\ ~MoveStepsTargetReached(current_position, loc[t].dir, loc[t].target)
       /\ ~MoveStepsLimitHit(current_position, loc[t].dir)
    \/ /\ pc[t] = "mm_loop"
       /\ loc[t].remaining > 0
       /\ ~MoveMotorLimitHit(current_position, loc[t].dir)
    \/ /\ pc[t] \in {"sc_ramp", "gz_loop"}
       /\ loc[t].remaining > 0

RaisedPc(p) ==
    CASE p \in {"ms_loop", "ms_high"} -> "ms_raised"
      [] p \in {"mm_loop", "mm_high"} -> "mm_raised"
      [] p \in {"sc_ramp", "sc_high"} -> "sc_raised"
      [] p \in {"gz_loop", "gz_high"} -> "gz_raised"

\* the driver call raises: nothing is written, the operation is left
DriverFault(t) ==
    /\ probe = NoProbe
    /\ AtStepOutput(t)
    /\ pc' = [pc EXCEPT ![t] = RaisedPc(pc[t])]
    /\ probe' = [fn |-> "fault", thread |-> t, at |-> pc[t]]
    /\ UNCHANGED <<current_position, motion, last_joystick_dir, motor_enabled, gpio,
                   position_file, lock, loc, loopLocals, overlapped>>

\* the exception leaves the with block and is logged by the input thread
Unwind(t) ==
    /\ pc[t] \in RaisedPcs
    /\ lock' = IF lock = t THEN NoThread ELSE lock
    /\ pc' = [pc EXCEPT ![t] = "idle"]
    /\ loc' = [loc EXCEPT ![t] = NoLocals]
    /\ overlapped' = [overlapped EXCEPT ![t] = FALSE]
    /\ UNCHANGED <<current_position, motion, last_joystick_dir, motor_enabled, gpio,
                   position_file, loopLocals, probe>>

\* the same in the pulse loop (lines 419 and 421): the thread ends, the lock is
\* released
LoopFault ==
    /\ probe = NoProbe
    /\ \/ pc[LoopThread] = "lp_high"
       \/ /\ pc[LoopThread] = "lp_lock2"
          /\ CanAcquire(LoopThread)
          /\ continuous_active
          /\ ~LoopLimitHit(current_position, lp_direction)
    /\ pc' = [pc EXCEPT ![LoopThread] = "lp_dead"]
    /\ lock' = IF lock = LoopThread THEN NoThread ELSE lock
    /\ probe' = [fn |-> "fault", thread |-> LoopThread, at |-> pc[LoopThread]]
    /\ UNCHANGED <<current_position, motion, last_joystick_dir, motor_enabled, gpio,
                   position_file, loc, loopLocals, overlapped>>

\* the run is followed up to the fault and the unwinding of the operation
NextFaults ==
    \/ probe = NoProbe /\ CallerStep(Commander)
    \/ probe = NoProbe /\ PulseLoop
    \/ DriverFault(Commander)
    \/ Unwind(Commander)
    \/ LoopFault

SpecFaults == Init /\ [][NextFaults]_vars

(***************************************************************************)
(* CLIInputThread.process_command (mod_2_test.py 678-720).  A line is a    *)
(* text; str.split() and float() are modelled on its characters.           *)
(***************************************************************************)
MaxLineLen == 5

LineAlphabet == {"1", ".", "-", "s", "x", " "}

RECURSIVE LinesOfLength(_)
LinesOfLength(n) ==
    IF n = 0 THEN {<<>>}
    ELSE {Append(t, c) : t \in LinesOfLength(n - 1), c \in LineAlphabet}

KeywordHelp == {<<"h", "e", "l", "p">>, <<"?">>}

KeywordExit == {<<"e", "n", "d">>, <<"e", "x", "i", "t">>, <<"q", "u", "i", "t">>}

KeywordZero == {<<"g", "t", "0">>, <<"g", "o", " ", "t", "o", " ", "z", "e", "r", "o">>}

KeywordReset == {<<"r", "e", "s", "e", "t">>}

Keywords == KeywordHelp \cup KeywordExit \cup KeywordZero \cup KeywordReset

SlowPrefixes == {<<"s">>, <<"s", "l", "o", "w">>}

\* the lines given to process_command (the test keywords, which drive the pins
\* directly, are left out)
CommandLines(longest) == Keywords \cup UNION {LinesOfLength(n) : n \in 0..longest}

\* str.split(): the maximal runs of non-blank characters
RECURSIVE Split(_)
Split(s) ==
    LET t == LStrip(s)
    IN  IF t = <<>> THEN <<>>
        ELSE LET blanks == {i \in 1..Len(t) : IsSpace(t[i])}
                 k == IF blanks = {} THEN Len(t) + 1
                      ELSE CHOOSE i \in blanks : \A j \in blanks : i <= j
             IN  <<SubSeq(t, 1, k - 1)>> \o Split(SubSeq(t, k, Len(t)))

\* float(token) for tokens of a sign, digits and a point: the value num / den,
\* or ValueError
ParseFloat(token) ==
    LET signed == token # <<>> /\ Head(token) \in {"-", "+"}
        body == IF signed THEN Tail(token) ELSE token
        points == {i \in 1..Len(body) : body[i] = "."}
        digits == SelectSeq(body, IsDigit)
        wellformed == /\ Cardinality(points) <= 1
                      /\ Len(digits) >= 1
                      /\ Len(digits) + Cardinality(points) = Len(body)
        decimals == IF points = {} THEN 0
                    ELSE Len(body) - (CHOOSE i \in points : TRUE)
        magnitude == DigitsValue(digits, 0)
    IN  IF wellformed
        THEN [ok |-> TRUE,
              num |-> IF signed /\ Head(token) = "-" THEN -magnitude ELSE magnitude,
              den |-> Power10(decimals)]
        ELSE [ok |-> FALSE, num |-> 0, den |-> 1]

NoCall == [call |-> "none", steps |-> 0, speed |-> 0, raised |-> "none"]

\* lines 679-720: what the command makes the thread call; ValueError is caught
\* and logged (719-720), IndexError (no token at all) leaves process_command
process_command(cmd) ==
    LET parts == Split(cmd)
        slow == Len(parts) = 2 /\ parts[1] \in SlowPrefixes
        arc == ParseFloat(IF slow THEN parts[2] ELSE parts[1])
    IN  IF cmd = <<>> THEN NoCall
        ELSE IF cmd \in KeywordHelp THEN [NoCall EXCEPT !.call = "show_help"]
        ELSE IF cmd \in KeywordExit THEN [NoCall EXCEPT !.call = "stop_event.set"]
        ELSE IF cmd \in KeywordZero THEN [NoCall EXCEPT !.call = "go_to_zero"]
        ELSE IF cmd \in KeywordReset THEN [NoCall EXCEPT !.call = "reset_position"]
        ELSE IF parts = <<>> THEN [NoCall EXCEPT !.raised = "IndexError"]
        ELSE IF arc.ok
             THEN [call |-> "move_steps", steps |-> arc_to_steps(arc.num, arc.den),
                   speed |-> IF slow THEN 1 ELSE 5, raised |-> "none"]
        ELSE [NoCall EXCEPT !.raised = "ValueError"]

InitCLI ==
    /\ InitController
    /\ \E c \in CommandLines(MaxLineLen) : probe = [fn |-> "line", cmd |-> c]

\* the CLI thread reads the line and runs process_command up to the call of the
\* controller operation; `reset` asks for a confirmation first (692-697)
ProcessCommand(t) ==
    /\ probe.fn = "line"
    /\ pc[t] = "idle"
    /\ LET d == process_command(probe.cmd)
       IN  /\ probe' = [fn |-> "cli", cmd |-> probe.cmd, start |-> current_position,
                        call |-> d.call, raised |-> d.raised]
           /\ CASE d.call = "move_steps" ->
                     /\ pc' = [pc EXCEPT ![t] = "ms_wait"]
                     /\ loc' = [loc EXCEPT ![t] = [NoLocals EXCEPT !.steps = d.steps,
                                                                   !.speed = d.speed]]
                [] d.call = "go_to_zero" ->
                     /\ pc' = [pc EXCEPT ![t] = "gz_wait"]
                     /\ UNCHANGED loc
                [] d.call = "reset_position" ->
                     /\ \E confirmed \in BOOLEAN :
                           pc' = [pc EXCEPT ![t] = IF confirmed THEN "rp_wait" ELSE "idle"]
                     /\ UNCHANGED loc
                [] OTHER -> UNCHANGED <<pc, loc>>
    /\ UNCHANGED <<current_position, motion, last_joystick_dir, motor_enabled, gpio,
                   position_file, lock, loopLocals, overlapped>>

NextCLI ==
    \/ ProcessCommand(Commander)
    \/ Acquire(Commander)
    \/ Return(Commander)
    \/ MoveStepsSetup(Commander)
    \/ MoveStepsLoop(Commander)
    \/ MoveStepsPulse(Commander)
    \/ GoToZeroSetup(Commander)
    \/ GoToZeroLoop(Commander)
    \/ GoToZeroPulse(Commander)
    \/ GoToZeroFinish(Commander)
    \/ ResetPositionBody(Commander)

SpecCLI == InitCLI /\ [][NextCLI]_vars

(***************************************************************************)
(* The server variant (stepper-server.py).  Its StepperController has the  *)
(* same fields and one threading.Lock, which is not reentrant.  enable()   *)
(* and disable() take the lock themselves (86-99), and move_motor,         *)
(* move_steps and reset_position call them from inside their own           *)
(* `with self._lock` block (106, 133, 148, 158, 169).                      *)
(***************************************************************************)
ServerEntryWaits == {"sms_wait", "smm_wait", "srp_wait"}

ServerEnableWaits == {"sms_enable", "smm_enable", "srp_enable"}

ServerDisableWaits == {"sdis_wait", "sms_disable", "srp_disable"}

ServerBodyPcs == {"srp_check", "sms_setup", "sms_loop", "sms_high", "smm_setup",
                  "smm_loop", "smm_high", "srp_setup", "srp_loop", "srp_high"}

ServerReturnPcs == {"sms_ret", "smm_ret", "srp_ret"}

InitServer ==
    /\ ControllerAtRest
    /\ probe = NoProbe
    /\ \E p \in PersistedAtStart \cup {1} :
          /\ position_file = SavedText(p)
          /\ current_position = Server_load_position(position_file).value

\* a thread calls move_steps (CLI, 293), move_motor (joystick, 248),
\* reset_position (227, 274) or disable (joystick at rest, 243)
ServerCall(t) ==
    /\ pc[t] = "idle"
    /\ pc[MainThread] = "main_join"
    /\ \/ \E n \in StepArgs :
             /\ loc' = [loc EXCEPT ![t] = [NoLocals EXCEPT !.steps = n]]
             /\ pc' = [pc EXCEPT ![t] = "sms_wait"]
       \/ \E d \in Directions :
             /\ loc' = [loc EXCEPT ![t] = [NoLocals EXCEPT !.dir = d]]
             /\ pc' = [pc EXCEPT ![t] = "smm_wait"]
       \/ /\ loc' = [loc EXCEPT ![t] = NoLocals]
          /\ pc' = [pc EXCEPT ![t] = "srp_wait"]
       \/ /\ loc' = [loc EXCEPT ![t] = NoLocals]
          /\ pc' = [pc EXCEPT ![t] = "sdis_wait"]
    /\ UNCHANGED <<current_position, motion, last_joystick_dir, motor_enabled, gpio,
                   position_file, lock, loopLocals, overlapped, probe>>

\* `with self._lock:` of move_steps (132), move_motor (105), reset_position
\* (152); the first statement of the first two is self.enable()
ServerAcquire(t) ==
    /\ pc[t] \in ServerEntryWaits
    /\ CanAcquire(t)
    /\ lock' = t
    /\ pc' = [pc EXCEPT ![t] = CASE pc[t] = "sms_wait" -> "sms_enable"
                                 [] pc[t] = "smm_wait" -> "smm_enable"
                                 [] pc[t] = "srp_wait" -> "srp_check"]
    /\ UNCHANGED <<current_position, motion, last_joystick_dir, motor_enabled, gpio,
                   position_file, loc, loopLocals, overlapped, probe>>

\* enable() (86-91) and disable() (93-99): `with self._lock:` and the body,
\* which has no sleep, then the release.  The thread waits here as long as
\* the lock is held, by whomever.
ServerEnableDisable(t) ==
    /\ pc[t] \in ServerEnableWaits \cup ServerDisableWaits
    /\ CanAcquire(t)
    /\ IF pc[t] \in ServerEnableWaits
       THEN /\ enable_pin' = IF motor_enabled THEN enable_pin ELSE HIGH
            /\ motor_enabled' = TRUE
            /\ UNCHANGED position_file
       ELSE /\ enable_pin' = IF motor_enabled THEN LOW ELSE enable_pin
            /\ motor_enabled' = FALSE
            /\ position_file' = IF motor_enabled THEN SavedText(current_position)
                                ELSE position_file
    /\ pc' = [pc EXCEPT ![t] = CASE pc[t] = "sms_enable" -> "sms_setup"
                                 [] pc[t] = "smm_enable" -> "smm_setup"
                                 [] pc[t] = "srp_enable" -> "srp_setup"
                                 [] pc[t] = "sms_disable" -> "sms_ret"
                                 [] pc[t] = "srp_disable" -> "srp_ret"
                                 [] pc[t] = "sdis_wait" ->
                                      IF t = MainThread THEN "sd_done" ELSE "idle"]
    /\ UNCHANGED <<current_position, motion, last_joystick_dir, dir_pin, step_pin,
                   mode_pins, pwm_duty, lock, loc, loopLocals, overlapped, probe>>
\* the statements of the three operations between the calls of enable() and
\* disable(): 107-129, 134-147, 153-168
ServerBody(t) ==
    /\ pc[t] \in ServerBodyPcs
    /\ CASE pc[t] = "srp_check" ->
              /\ pc' = [pc EXCEPT ![t] = IF current_position = 0 THEN "srp_ret"
                                         ELSE "srp_enable"]
              /\ loc' = [loc EXCEPT ![t] = [@ EXCEPT !.steps = -current_position]]
              /\ UNCHANGED <<current_position, dir_pin, step_pin>>
         [] pc[t] \in {"sms_setup", "srp_setup"} ->
              /\ LET direction == IF loc[t].steps > 0 THEN 1 ELSE -1
                 IN  /\ dir_pin' = DirLevel(direction)
                     /\ loc' = [loc EXCEPT ![t] = [@ EXCEPT !.dir = direction,
                                                            !.remaining = Abs(loc[t].steps)]]
              /\ pc' = [pc EXCEPT ![t] = IF pc[t] = "sms_setup" THEN "sms_loop"
                                         ELSE "srp_loop"]
              /\ UNCHANGED <<current_position, step_pin>>
         [] pc[t] = "smm_setup" ->
              /\ dir_pin' = DirLevel(loc[t].dir)
              /\ loc' = [loc EXCEPT ![t] = [@ EXCEPT !.remaining = BATCH_PULSES]]
              /\ pc' = [pc EXCEPT ![t] = "smm_loop"]
              /\ UNCHANGED <<current_position, step_pin>>
         [] pc[t] \in {"sms_loop", "smm_loop"} ->
              /\ IF \/ loc[t].remaining = 0
                    \/ Abs(current_position + loc[t].dir) > MAX_STEPS
                 THEN /\ pc' = [pc EXCEPT ![t] = IF pc[t] = "sms_loop" THEN "sms_disable"
                                                 ELSE "smm_ret"]
                      /\ UNCHANGED step_pin
                 ELSE /\ pc' = [pc EXCEPT ![t] = IF pc[t] = "sms_loop" THEN "sms_high"
                                                 ELSE "smm_high"]
                      /\ step_pin' = HIGH
              /\ UNCHANGED <<current_position, dir_pin, loc>>
         [] pc[t] = "srp_loop" ->
              /\ IF loc[t].remaining = 0
                 THEN /\ current_position' = 0
                      /\ pc' = [pc EXCEPT ![t] = "srp_disable"]
                      /\ UNCHANGED step_pin
                 ELSE /\ pc' = [pc EXCEPT ![t] = "srp_high"]
                      /\ step_pin' = HIGH
                      /\ UNCHANGED current_position
              /\ UNCHANGED <<dir_pin, loc>>
         [] pc[t] \in {"sms_high", "smm_high", "srp_high"} ->
              /\ step_pin' = LOW
              /\ current_position' = current_position + loc[t].dir
              /\ loc' = [loc EXCEPT ![t] = [@ EXCEPT !.remaining = @ - 1]]
              /\ pc' = [pc EXCEPT ![t] = CASE pc[t] = "sms_high" -> "sms_loop"
                                           [] pc[t] = "smm_high" -> "smm_loop"
                                           [] pc[t] = "srp_high" -> "srp_loop"]
              /\ UNCHANGED dir_pin
    /\ UNCHANGED <<motion, last_joystick_dir, motor_enabled, enable_pin, mode_pins,
                   pwm_duty, position_file, lock, loopLocals, overlapped, probe>>

\* the with block of the operation ends
ServerReturn(t) ==
    /\ pc[t] \in ServerReturnPcs
    /\ lock' = IF lock = t THEN NoThread ELSE lock
    /\ pc' = [pc EXCEPT ![t] = "idle"]
    /\ loc' = [loc EXCEPT ![t] = NoLocals]
    /\ UNCHANGED <<current_position, motion, last_joystick_dir, motor_enabled, gpio,
                   position_file, loopLocals, overlapped, probe>>

\* main() (311-316): once the input threads have ended, shutdown() calls
\* self.disable()
ServerShutdown ==
    /\ pc[MainThread] = "main_join"
    /\ \A t \in Callers : pc[t] = "idle"
    /\ pc' = [pc EXCEPT ![MainThread] = "sdis_wait"]
    /\ UNCHANGED <<current_position, motion, last_joystick_dir, motor_enabled, gpio,
                   position_file, lock, loc, loopLocals, overlapped, probe>>

ServerRunning(t) ==
    \/ ServerEnableDisable(t)
    \/ ServerBody(t)
    \/ ServerReturn(t)

NextServer ==
    \/ \E t \in Callers : ServerCall(t) \/ ServerAcquire(t) \/ ServerRunning(t)
    \/ ServerShutdown
    \/ ServerEnableDisable(MainThread)

\* a thread inside an operation keeps running, and a thread waiting for the
\* lock gets it if it is free again and again
ServerFairness ==
    /\ \A t \in Callers : WF_vars(ServerRunning(t)) /\ SF_vars(ServerAcquire(t))
    /\ WF_vars(ServerEnableDisable(MainThread))

FairServer == InitServer /\ [][NextServer]_vars /\ ServerFairness

(***************************************************************************)
(* _save_position with a failing file system (mod_2_test.py 103-109).      *)
(* open(path, 'w') can raise before the file is touched; the write (or the *)
(* flush when the with block closes the file) can raise after open has     *)
(* truncated the file.  Both happen inside `try`, and `except Exception`   *)
(* logs the error and returns.  The callers are reset_position (245),      *)
(* go_to_zero (492) and shutdown (273).                                    *)
(***************************************************************************)
SaveFaults == {"open", "write"}

\* what the file holds after the failed attempt
FileAfterFault(file, fault) == IF fault = "open" THEN file ELSE <<>>

\* a variant without the try / except: the OSError reaches the caller
StepperController_save_position_NoHandler(file, fault) ==
    [file |-> FileAfterFault(file, fault), raised |-> "OSError"]

\* lines 105-109 when open or write raises
StepperController_save_position(file, fault) ==
    [file |-> FileAfterFault(file, fault), raised |-> "none"]

\* reset_position, lines 243-246, with the save failing
ResetPositionSaveFails(t) ==
    /\ pc[t] = "rp_body"
    /\ current_position' = 0
    /\ \E fault \in SaveFaults :
          LET saved == StepperController_save_position(position_file, fault)
          IN  /\ position_file' = saved.file
              /\ pc' = [pc EXCEPT ![t] = IF saved.raised = "none" THEN "rp_ret"
                                         ELSE "rp_raised"]
              /\ probe' = [fn |-> "save_fault", op |-> "reset_position", fault |-> fault]
    /\ UNCHANGED <<motion, last_joystick_dir, motor_enabled, gpio, lock, loc, loopLocals,
                   overlapped>>

\* go_to_zero, lines 490-495, with the save failing: ENABLE LOW follows the save
GoToZeroSaveFails(t) ==
    /\ pc[t] = "gz_finish"
    /\ current_position' = 0
    /\ \E fault \in SaveFaults :
          LET saved == StepperController_save_position(position_file, fault)
          IN  /\ position_file' = saved.file
              /\ enable_pin' = IF saved.raised = "none" THEN LOW ELSE enable_pin
              /\ pc' = [pc EXCEPT ![t] = IF saved.raised = "none" THEN "gz_ret"
                                         ELSE "gz_raised"]
              /\ probe' = [fn |-> "save_fault", op |-> "go_to_zero", fault |-> fault]
    /\ UNCHANGED <<motion, last_joystick_dir, motor_enabled, dir_pin, step_pin, mode_pins,
                   pwm_duty, lock, loc, loopLocals, overlapped>>

\* shutdown, line 273, with the save failing: GPIO.cleanup() follows the save
ShutdownSaveFails ==
    /\ pc[MainThread] = "sd_save"
    /\ \E fault \in SaveFaults :
          LET saved == StepperController_save_position(position_file, fault)
          IN  /\ position_file' = saved.file
              /\ pc' = [pc EXCEPT ![MainThread] = IF saved.raised = "none" THEN "sd_cleanup"
                                                  ELSE "sd_raised"]
              /\ probe' = [fn |-> "save_fault", op |-> "shutdown", fault |-> fault]
    /\ UNCHANGED <<current_position, motion, last_joystick_dir, motor_enabled, gpio, lock,
                   loc, loopLocals, overlapped>>

\* the operations that save, and move_steps to take the counter away from 0
StoreStep(t) ==
    \/ Acquire(t)
    \/ Return(t)
    \/ MoveSteps(t)
    \/ GoToZero(t)
    \/ ResetPosition(t)

\* the command thread and the idle pulse loop run up to the return of
\* shutdown; every save can succeed or fail
NextStoreFault ==
    \/ ~ShutdownReturned /\ StoreStep(Commander)
    \/ ~ShutdownReturned /\ ResetPositionSaveFails(Commander)
    \/ ~ShutdownReturned /\ GoToZeroSaveFails(Commander)
    \/ ~ShutdownReturned /\ LoopCheck
    \/ ~ShutdownReturned /\ LoopIdleSleep
    \/ Shutdown
    \/ ShutdownSaveFails

SpecStoreFault == Init /\ [][NextStoreFault]_vars

(***************************************************************************)
(* vis-manual.py: a single-threaded variant.  main_control (132-156) loads *)
(* the position, then reads commands: a number of steps is passed to       *)
(* move_steps (68-98) if the target is inside the travel range and is      *)
(* refused otherwise; `end` leaves the loop and the `finally` at 163-164   *)
(* disables the driver.  move_steps saves the position whenever its        *)
(* absolute value is a multiple of 1000.  nunchuk_control is never         *)
(* started.  load_position (59-66) and save_position (55-57) are the       *)
(* functions of mod_1.py.  The command in progress is kept in `probe`.     *)
(***************************************************************************)
\* MAX_STEPS of vis-manual.py (line 20: 132000), scaled down
VisManual_MAX_STEPS == 6

\* the flush interval of line 97 (1000), scaled down
FLUSH_INTERVAL == 3

VisFilesAtStart ==
    {Absent, <<"x">>, IntToStr(0), IntToStr(-1), IntToStr(FLUSH_INTERVAL + 1)}

\* lines 31-43: the pins are off, the mode pins on, current_position = 0
InitVis ==
    /\ position_file \in VisFilesAtStart
    /\ current_position = 0
    /\ continuous_active = FALSE
    /\ continuous_direction = 0
    /\ continuous_delay = 0
    /\ half_speed_mode = FALSE
    /\ last_joystick_dir = 0
    /\ motor_enabled = FALSE
    /\ enable_pin = LOW
    /\ dir_pin = LOW
    /\ step_pin = LOW
    /\ mode_pins = <<HIGH, HIGH, HIGH>>
    /\ pwm_duty = 0
    /\ lock = NoThread
    /\ pc = [t \in Threads |-> IF t = MainThread THEN "vis_load" ELSE "idle"]
    /\ loc = [t \in Callers |-> NoLocals]
    /\ lp_direction = 0
    /\ overlapped = [t \in Callers |-> FALSE]
    /\ probe = NoProbe

\* line 134: current_position = load_position()
VisLoad ==
    /\ pc[MainThread] = "vis_load"
    /\ current_position' = load_position(position_file).value
    /\ position_file' = load_position_file(position_file)
    /\ pc' = [pc EXCEPT ![MainThread] = "vis_input"]
    /\ UNCHANGED <<motion, last_joystick_dir, motor_enabled, gpio, lock, loc, loopLocals,
                   overlapped, probe>>

\* line 85 (and 148): -MAX_STEPS <= position <= MAX_STEPS
VisInRange(position) ==
    -VisManual_MAX_STEPS <= position /\ position <= VisManual_MAX_STEPS

\* lines 146-152: a numeric command; the move is made only if its target is
\* inside the travel range
VisCommand ==
    /\ pc[MainThread] = "vis_input"
    /\ \E steps \in StepArgs :
          IF VisInRange(current_position + steps)
          THEN /\ probe' = [fn |-> "move_steps", steps |-> steps,
                            start |-> current_position,
                            dir |-> IF steps > 0 THEN 1 ELSE -1,
                            remaining |-> Abs(steps), outcome |-> "moving"]
               /\ pc' = [pc EXCEPT ![MainThread] = "vis_setup"]
          ELSE /\ probe' = [fn |-> "move_steps", steps |-> steps,
                            start |-> current_position,
                            dir |-> IF steps > 0 THEN 1 ELSE -1,
                            remaining |-> 0, outcome |-> "refused"]
               /\ UNCHANGED pc
    /\ UNCHANGED <<current_position, motion, last_joystick_dir, motor_enabled, gpio,
                   position_file, lock, loc, loopLocals, overlapped>>

\* lines 70-75
VisMoveStepsSetup ==
    /\ pc[MainThread] = "vis_setup"
    /\ dir_pin' = DirLevel(probe.dir)
    /\ enable_pin' = HIGH
    /\ pc' = [pc EXCEPT ![MainThread] = "vis_loop"]
    /\ UNCHANGED <<current_position, motion, last_joystick_dir, motor_enabled, step_pin,
                   mode_pins, pwm_duty, position_file, lock, loc, loopLocals, overlapped,
                   probe>>

\* lines 84-89: the loop head and the limit test, up to step_pin.on()
VisMoveStepsLoop ==
    /\ pc[MainThread] = "vis_loop"
    /\ IF probe.remaining = 0 \/ ~VisInRange(current_position + probe.dir)
       THEN /\ pc' = [pc EXCEPT ![MainThread] = "vis_input"]
            /\ probe' = [probe EXCEPT !.outcome = "done"]
            /\ UNCHANGED step_pin
       ELSE /\ step_pin' = HIGH
            /\ pc' = [pc EXCEPT ![MainThread] = "vis_high"]
            /\ UNCHANGED probe
    /\ UNCHANGED <<current_position, motion, last_joystick_dir, motor_enabled, enable_pin,
                   dir_pin, mode_pins, pwm_duty, position_file, lock, loc, loopLocals,
                   overlapped>>

\* a variant that never saves during a move
FlushDue_Never(position) == FALSE

\* line 97
FlushDue(position) == Abs(position) % FLUSH_INTERVAL = 0

\* lines 91-98: step_pin.off(), the step is counted and the position saved
\* if it is due
VisMoveStepsPulse ==
    /\ pc[MainThread] = "vis_high"
    /\ step_pin' = LOW
    /\ current_position' = current_position + probe.dir
    /\ position_file' = IF FlushDue(current_position') THEN IntToStr(current_position')
                        ELSE position_file
    /\ probe' = [probe EXCEPT !.remaining = @ - 1]
    /\ pc' = [pc EXCEPT ![MainThread] = "vis_loop"]
    /\ UNCHANGED <<motion, last_joystick_dir, motor_enabled, enable_pin, dir_pin, mode_pins,
                   pwm_duty, lock, loc, loopLocals, overlapped>>

\* lines 143-144 and 163-164: `end`, and the driver is disabled on exit
VisEnd ==
    /\ pc[MainThread] = "vis_input"
    /\ enable_pin' = LOW
    /\ pc' = [pc EXCEPT ![MainThread] = "vis_done"]
    /\ UNCHANGED <<current_position, motion, last_joystick_dir, motor_enabled, dir_pin,
                   step_pin, mode_pins, pwm_duty, position_file, lock, loc, loopLocals,
                   overlapped, probe>>

NextVis ==
    \/ VisLoad
    \/ VisCommand
    \/ VisMoveStepsSetup
    \/ VisMoveStepsLoop
    \/ VisMoveStepsPulse
    \/ VisEnd

SpecVis == InitVis /\ [][NextVis]_vars

(***************************************************************************)
(* mod_1.py, the single-threaded program that mod_2_test.py was ported     *)
(* from: move_steps (141-171) and move_motor (87-139) as functions of the  *)
(* position at the call and the arguments.  MAX_STEPS is the same number   *)
(* in both files.                                                          *)
(***************************************************************************)
\* the loop at 158-167 (and at 126-139): the number of pulses emitted before
\* the loop ends or the limit stops it
RECURSIVE mod_1_pulses(_, _, _)
mod_1_pulses(position, direction, remaining) ==
    IF remaining = 0 \/ Abs(position + direction) > MAX_STEPS THEN 0
    ELSE 1 + mod_1_pulses(position + direction, direction, remaining - 1)

\* move_steps: DIR is written once (145), ENABLE HIGH (147), the pulses, then
\* ENABLE LOW (169) and save_position (170)
mod_1_move_steps(position, steps) ==
    LET step_direction == IF steps > 0 THEN 1 ELSE -1
        pulses == mod_1_pulses(position, step_direction, Abs(steps))
        final == position + step_direction * pulses
    IN  [dir_pin |-> DirLevel(step_direction),
         pulses |-> pulses,
         current_position |-> final,
         enable_pin |-> LOW,
         position_file |-> IntToStr(final)]

\* move_motor: DIR is written on every call (92), then a batch of pulses;
\* ENABLE is not touched and nothing is saved
mod_1_move_motor(position, direction) ==
    LET pulses == mod_1_pulses(position, direction, BATCH_PULSES)
    IN  [dir_pin |-> DirLevel(direction),
         pulses |-> pulses,
         current_position |-> position + direction * pulses]

(***************************************************************************)
(* All operations, fairly scheduled: a thread inside an operation keeps    *)
(* running, a thread blocked in `with self._lock` gets the lock if it is   *)
(* free again and again, and the pulse loop keeps running.  Whether and    *)
(* when an operation is called is up to the user.                          *)
(***************************************************************************)
\* the steps of a call between taking the lock and returning
RunningStep(t) ==
    \/ Return(t)
    \/ MoveStepsSetup(t) \/ MoveStepsLoop(t) \/ MoveStepsPulse(t)
    \/ MoveMotorSetup(t) \/ MoveMotorLoop(t) \/ MoveMotorPulse(t)
    \/ StartContinuousCheck(t) \/ StartContinuousRamp(t) \/ StartContinuousPulse(t)
    \/ StopContinuousBody(t)
    \/ GoToZeroSetup(t) \/ GoToZeroLoop(t) \/ GoToZeroPulse(t) \/ GoToZeroFinish(t)
    \/ ResetPositionBody(t)

\* the arguments the calls are issued with: single steps either way or none,
\* one speed setting, full speed
FairStepArgs == {-1, 0, 1}

FairSpeeds == {9}

FairCallerStep(t) ==
    /\ CallerStep(t)
    /\ loc'[t].steps \in FairStepArgs
    /\ loc'[t].speed \in FairSpeeds \cup {NoLocals.speed}
    /\ ~loc'[t].half

NextFair ==
    \/ FairCallerStep(Commander)
    \/ PulseLoop

CallFairness ==
    /\ WF_vars(RunningStep(Commander))
    /\ SF_vars(Acquire(Commander))
    /\ WF_vars(PulseLoop)

FairSpec == Init /\ [][NextFair]_vars /\ CallFairness

(***************************************************************************)
(* The threads of main() (mod_2_test.py 785-799): the CLI thread           *)
(* (CLIInputThread.run 644-658, process_command 678-720), the joystick     *)
(* thread (NunchukInputThread.run 527-627) and the main thread, which      *)
(* joins the CLI thread only and then calls controller.shutdown() in its   *)
(* `finally`.  `probe` holds stop_event and where each input thread is:    *)
(* "loop" at the test of its while loop, "input" / "poll" reading the      *)
(* user, "hardware" inside hardware_test at a prompt, "exited" after run   *)
(* returned.  While a thread is inside a controller call its pc says       *)
(* where, and it is back at the loop test when the call has returned.      *)
(* Ctrl-C (793-795) is left out: it takes the main thread to the finally   *)
(* block at once.                                                          *)
(***************************************************************************)
\* prompts of hardware_test (2 enables x 2 directions x 4 high x 5 low = 80
\* in the code, lines 770-780)
HARDWARE_PROMPTS == 2

CliThread == "t1"

JoyThread == "t2"

InitMain ==
    /\ InitController
    /\ probe = [fn |-> "main", stop_event |-> FALSE, cli |-> "loop", joy |-> "loop",
                prompts |-> 0]

\* line 647: while not self.stop_event.is_set()
CliLoopTest ==
    /\ probe.cli = "loop"
    /\ pc[CliThread] = "idle"
    /\ probe' = [probe EXCEPT !.cli = IF probe.stop_event THEN "exited" ELSE "input"]
    /\ UNCHANGED <<current_position, motion, last_joystick_dir, motor_enabled, gpio, position_file,
                   lock, pc, loc, loopLocals, overlapped>>

\* lines 638-643 and 652-653: select() times out after 10 s, cmd is None, or
\* the line is empty, help, or not a number (678-683, 719-720)
CliTimeout ==
    /\ probe.cli = "input"
    /\ probe' = [probe EXCEPT !.cli = "loop"]
    /\ UNCHANGED <<current_position, motion, last_joystick_dir, motor_enabled, gpio, position_file,
                   lock, pc, loc, loopLocals, overlapped>>

\* lines 684-687: end, exit, quit
CliEnd ==
    /\ probe.cli = "input"
    /\ probe' = [probe EXCEPT !.stop_event = TRUE, !.cli = "loop"]
    /\ UNCHANGED <<current_position, motion, last_joystick_dir, motor_enabled, gpio, position_file,
                   lock, pc, loc, loopLocals, overlapped>>

\* lines 688-690, 691-698 and 711-718: gt0, a confirmed reset, or a number:
\* the thread enters go_to_zero, reset_position or move_steps
CliCall ==
    /\ probe.cli = "input"
    /\ \E entry \in {"gz_wait", "rp_wait", "ms_wait"}, n \in FairStepArgs :
          /\ entry # "ms_wait" => n = 0
          /\ pc' = [pc EXCEPT ![CliThread] = entry]
          /\ loc' = [loc EXCEPT ![CliThread] = [NoLocals EXCEPT !.steps = n]]
    /\ probe' = [probe EXCEPT !.cli = "loop"]
    /\ UNCHANGED <<current_position, motion, last_joystick_dir, motor_enabled, gpio, position_file,
                   lock, loopLocals, overlapped>>

\* lines 702-704 and 765-780: hardware_test writes ENABLE and DIR, pulses
\* STEP and then waits in input(), which has no timeout and does not look at
\* stop_event
CliHardwareTest ==
    /\ probe.cli = "input"
    /\ probe' = [probe EXCEPT !.cli = "hardware", !.prompts = HARDWARE_PROMPTS]
    /\ enable_pin' = HIGH
    /\ dir_pin' = HIGH
    /\ step_pin' = LOW
    /\ UNCHANGED <<current_position, motion, last_joystick_dir, motor_enabled, mode_pins, pwm_duty,
                   position_file, lock, pc, loc, loopLocals, overlapped>>

\* line 780: the user answers the prompt; the test goes on to the next
\* timing, or, after the last one (ENABLE LOW, DIR LOW), returns
CliHardwareAnswer ==
    /\ probe.cli = "hardware"
    /\ IF probe.prompts > 1
       THEN /\ probe' = [probe EXCEPT !.prompts = @ - 1]
            /\ UNCHANGED <<enable_pin, dir_pin>>
       ELSE /\ probe' = [probe EXCEPT !.prompts = 0, !.cli = "loop"]
            /\ enable_pin' = LOW
            /\ dir_pin' = LOW
    /\ step_pin' = LOW
    /\ UNCHANGED <<current_position, motion, last_joystick_dir, motor_enabled, mode_pins, pwm_duty,
                   position_file, lock, pc, loc, loopLocals, overlapped>>

\* line 535: while not self.stop_event.is_set()
JoyLoopTest ==
    /\ probe.joy = "loop"
    /\ pc[JoyThread] = "idle"
    /\ probe' = [probe EXCEPT !.joy = IF probe.stop_event THEN "exited" ELSE "poll"]
    /\ UNCHANGED <<current_position, motion, last_joystick_dir, motor_enabled, gpio, position_file,
                   lock, pc, loc, loopLocals, overlapped>>

\* lines 543-546: Z and C together
JoyExit ==
    /\ probe.joy = "poll"
    /\ probe' = [probe EXCEPT !.stop_event = TRUE, !.joy = "exited"]
    /\ UNCHANGED <<current_position, motion, last_joystick_dir, motor_enabled, gpio, position_file,
                   lock, pc, loc, loopLocals, overlapped>>

\* lines 549-620: nothing to do in this round (sleep 0.01)
JoyRest ==
    /\ probe.joy = "poll"
    /\ probe' = [probe EXCEPT !.joy = "loop"]
    /\ UNCHANGED <<current_position, motion, last_joystick_dir, motor_enabled, gpio, position_file,
                   lock, pc, loc, loopLocals, overlapped>>

\* lines 554, 598 and 617: a double tap on Z, the stick back in the dead
\* zone, or the stick pushed: the thread enters go_to_zero,
\* stop_continuous_movement or start_continuous_movement
JoyCall ==
    /\ probe.joy = "poll"
    /\ \E entry \in {"gz_wait", "st_wait", "sc_wait"}, d \in Directions \cup {0} :
          /\ (d # 0) = (entry = "sc_wait")
          /\ entry = "sc_wait" => Abs(current_position) <= PositionCap
          /\ pc' = [pc EXCEPT ![JoyThread] = entry]
          /\ loc' = [loc EXCEPT ![JoyThread] =
                        IF entry = "sc_wait"
                        THEN [NoLocals EXCEPT !.dir = d, !.speed = 9]
                        ELSE NoLocals]
    /\ probe' = [probe EXCEPT !.joy = "loop"]
    /\ UNCHANGED <<current_position, motion, last_joystick_dir, motor_enabled, gpio, position_file,
                   lock, loopLocals, overlapped>>

\* lines 792 and 796-798: join has returned and the finally block runs
\* controller.shutdown()
MainShutdown ==
    /\ probe.cli = "exited"
    /\ Shutdown

CliStep ==
    \/ CliLoopTest \/ CliTimeout \/ CliEnd \/ CliCall \/ CliHardwareTest

JoyStep ==
    \/ JoyLoopTest \/ JoyExit \/ JoyRest \/ JoyCall

\* inside a controller call: waiting for the lock, or running the body
InCall(t) ==
    \/ Acquire(t)
    \/ RunningStep(t)

\* the daemon threads end with the process, right after shutdown returned
NextMain ==
    \/ ~ShutdownReturned /\ CliStep
    \/ ~ShutdownReturned /\ CliHardwareAnswer
    \/ ~ShutdownReturned /\ JoyStep
    \/ ~ShutdownReturned /\ InCall(CliThread)
    \/ ~ShutdownReturned /\ InCall(JoyThread)
    \/ ~ShutdownReturned /\ PulseLoop
    \/ MainShutdown

\* Threads that can run do run, a thread blocked on _lock gets it when it is
\* free again and again, select() returns after its timeout at the latest.
\* Nothing makes the user answer a prompt.
MainFairness ==
    /\ WF_vars(~ShutdownReturned /\ CliStep)
    /\ WF_vars(~ShutdownReturned /\ JoyStep)
    /\ \A t \in Callers : WF_vars(~ShutdownReturned /\ RunningStep(t))
    /\ \A t \in Callers : SF_vars(~ShutdownReturned /\ Acquire(t))
    /\ WF_vars(~ShutdownReturned /\ PulseLoop)
    /\ WF_vars(MainShutdown)

FairMain == InitMain /\ [][NextMain]_vars /\ MainFairness

(***************************************************************************)
(* Claims                                                                  *)
(***************************************************************************)

\* C1: with only move_steps calls, issued by two concurrent callers, the step
\* counter stays within the travel limit in every state, also inside a move.
C1_MoveStepsKeepsLimit ==
    /\ -MAX_STEPS <= current_position
    /\ current_position <= MAX_STEPS

\* a move that asked for more than the travel allows has stopped at the limit
\* while the other caller waits for the lock
C1_Witness ==
    \E t \in Callers, u \in Callers :
        /\ pc[t] = "ms_ret"
        /\ pc[u] = "ms_wait"
        /\ Abs(loc[t].target) > MAX_STEPS
        /\ Abs(current_position) = MAX_STEPS
        /\ loc[t].emitted > 0

\* C2 (as claimed): under all operations the step counter stays within the
\* travel limit, because every increment is preceded by a limit check.
C2_AllOperationsKeepLimit == Abs(current_position) <= MAX_STEPS

\* C3: a move_steps call that starts within the limits returns at the clamped
\* target, having emitted exactly the pulses between start and end.
C3_MoveTruncatedAtBoundary ==
    \A t \in Callers :
        (pc[t] = "ms_ret" /\ Abs(loc[t].start) <= MAX_STEPS) =>
            /\ current_position = Clamp(loc[t].start + loc[t].steps)
            /\ loc[t].emitted = Abs(current_position - loc[t].start)

\* a move that would cross the limit has returned after some pulses
C3_Witness ==
    \E t \in Callers :
        /\ pc[t] = "ms_ret"
        /\ Abs(loc[t].start) < MAX_STEPS
        /\ Abs(loc[t].start + loc[t].steps) > MAX_STEPS
        /\ loc[t].emitted > 0

C5_IdempotentStart ==
    [][\A t \in Callers :
         (/\ pc'[t] # pc[t]
          /\ \/ pc[t] = "sc_skip"
             \/ /\ pc[t] = "sc_check"
                /\ continuous_active
                /\ continuous_direction = loc[t].dir
                /\ half_speed_mode = loc[t].half)
         => /\ pc'[t] \in {"sc_skip", "idle"}
            /\ UNCHANGED <<enable_pin, dir_pin, step_pin, mode_pins, pwm_duty,
                           current_position, continuous_direction, continuous_delay,
                           continuous_active, half_speed_mode>>]_vars

\* a repeated start has been skipped although it asked for another speed
C5_Witness ==
    \E t \in Callers :
        /\ pc[t] = "sc_skip"
        /\ continuous_active
        /\ continuous_delay # CalculateManualDelay(loc[t].speed, loc[t].half)

\* C6: go_to_zero, once called, returns, and the step counter is 0 when it
\* returns, whether or not continuous movement is active in the pulse loop.
C6_GoToZeroTerminatesAtZero ==
    /\ [](\A t \in Callers : pc[t] = "gz_ret" => current_position = 0)
    /\ \A t \in Callers : (pc[t] = "gz_wait") ~> (pc[t] = "gz_ret")

\* go_to_zero was entered away from zero with continuous movement active, has
\* stepped, and is about to return
C6_Witness ==
    \E t \in Callers :
        /\ pc[t] = "gz_ret"
        /\ loc[t].emitted > 0
        /\ pc[LoopThread] = "lp_lock2"

\* the file holds an optionally signed run of decimal digits, possibly with
\* blanks around it
HoldsDecimalInteger(file) ==
    /\ file # Absent
    /\ \E i \in 1..Len(file), j \in 1..Len(file) :
          /\ i <= j
          /\ \A k \in 1..Len(file) : (k < i \/ k > j) => file[k] = " "
          /\ \A k \in (i + 1)..j : IsDigit(file[k])
          /\ \/ IsDigit(file[i])
             \/ file[i] \in {"-", "+"} /\ i < j

RECURSIVE SumOver(_, _)
SumOver(S, f) ==
    IF S = {} THEN 0
    ELSE LET x == CHOOSE y \in S : TRUE IN f[x] + SumOver(S \ {x}, f)

DecimalInteger(file) ==
    LET digits == {k \in 1..Len(file) : IsDigit(file[k])}
        last == CHOOSE k \in digits : \A m \in digits : m <= k
        magnitude == SumOver(digits, [k \in digits |-> DigitValue(file[k]) * Power10(last - k)])
    IN  IF \E k \in 1..Len(file) : file[k] = "-" THEN -magnitude ELSE magnitude

\* C7: loading returns 0 without raising when the file is missing or does not
\* hold a decimal integer, and returns the integer when the file holds one
\* (all three variants of load_position).
C7_LoadNeverRaises ==
    probe.fn \in {"mod_2_test", "mod_1", "stepper-server"} =>
        /\ probe.outcome.raised = "none"
        /\ probe.outcome.value = IF HoldsDecimalInteger(probe.input)
                                 THEN DecimalInteger(probe.input)
                                 ELSE 0
        /\ current_position = probe.outcome.value

\* the controller of mod_2_test.py has loaded a file holding only a sign (a
\* write cut short) and started at 0
C7_Witness ==
    /\ probe.fn = "mod_2_test"
    /\ probe.input = <<"-">>
    /\ current_position = 0

\* C8: steps -> (arcminutes, arcseconds) -> m.ss notation -> steps comes back
\* within one step of where it started.
C8_RoundTripWithinOneStep ==
    probe.fn = "round_trip" => Abs(probe.steps - probe.input) <= 1

\* a negative count with a non-zero arcminute and arcsecond part went round
C8_Witness ==
    /\ probe.fn = "round_trip"
    /\ probe.input < 0
    /\ probe.arc.arcminutes > 0
    /\ probe.arc.arcsec[1] > 0
    /\ probe.steps = probe.input

\* the integer nearest to n/d, halves going to the even one
Nearest(n, d) ==
    CHOOSE k \in {n \div d, n \div d + 1} :
        \/ 2 * Abs(k * d - n) < d
        \/ 2 * Abs(k * d - n) = d /\ k % 2 = 0

\* C9: arc_to_steps reads m.ss as m arcminutes and ss arcseconds: the result is
\* round((60 m + ss) * StepsPerArcsecond) with the sign of the argument, and
\* 1.30 gives 24.
C9_ArcminArcsecNotation ==
    probe.fn = "arc_to_steps" =>
        LET m == Abs(probe.input) \div 100
            ss == Abs(probe.input) % 100
            expected == Nearest((60 * m + ss) * 4, 15)
        IN  /\ STEPS_PER_ARCSECOND = <<4, 15>>
            /\ probe.steps = Sign(probe.input) * expected
            /\ probe.input = 130 => probe.steps = 24

\* -1.75 was converted: 1 arcminute and 75 arcseconds, 135 arcseconds in all
C9_Witness ==
    /\ probe.fn = "arc_to_steps"
    /\ probe.input = -175
    /\ probe.steps = -36

\* C10 (as claimed): no thread holds the lock while it sleeps inside a pulse.
C10_NoPulseWaitUnderLock ==
    \A t \in Threads : pc[t] \in PulseWaitPcs => lock # t

\* C11 (as claimed): once continuous movement has been started, whenever
\* stop_continuous_movement returns, continuous movement is off, the mode pins
\* select 1/4 step and the PWM duty is the holding value of 80, whatever the
\* state was when it was called.
C11_StopRestoresDefaults ==
    \A t \in Callers :
        (pc[t] = "st_ret" /\ continuous_direction # 0) =>
            /\ ~continuous_active
            /\ mode_pins = QuarterStep
            /\ pwm_duty = 80

\* C12 (as claimed): the position file holds the decimal value of the step
\* counter when stop_continuous_movement, go_to_zero or reset_position returns,
\* and whenever the motor is disabled with continuous movement off and no
\* operation in progress (which covers the limit stop of the pulse loop).
C12_PersistedAtDisable ==
    /\ \A t \in Callers :
          pc[t] \in {"st_ret", "gz_ret", "rp_ret"} =>
              position_file = SavedText(current_position)
    /\ (/\ enable_pin = LOW
        /\ ~continuous_active
        /\ lock = NoThread
        /\ \A t \in Callers : pc[t] = "idle")
       => position_file = SavedText(current_position)

\* C13 (as claimed): when shutdown returns, ENABLE is LOW, the position file
\* holds the step counter, and no thread is in the middle of a pulse, also when
\* continuous movement was active or another thread was inside an operation
\* when shutdown was called.
C13_ShutdownQuiesces ==
    ShutdownReturned =>
        /\ enable_pin = LOW
        /\ position_file = SavedText(current_position)
        /\ \A t \in Threads : pc[t] \notin PulseWaitPcs

\* C14 (as claimed): at every instant of a save, and after a power loss at any
\* point of it, the position file parses to the position saved before or to the
\* new one, and a restart comes up with one of the two.
C14_SaveIsAtomic ==
    probe.fn = "save" =>
        /\ StepperController_load_position(position_file).value \in {probe.old, probe.new}
        /\ probe.stage = "restarted" => current_position \in {probe.old, probe.new}

\* the assignments of 0 in reset_position and go_to_zero, which are no steps
SettingZero ==
    \E t \in Callers : pc[t] \in {"rp_body", "gz_finish"} /\ pc'[t] # pc[t]

\* C15: in every stepping site the step counter changes only by one, and only
\* in the step that ends a pulse (STEP was driven HIGH and is driven LOW); and
\* when a driver call raises in the middle of a move, the counter is the start
\* position plus the signed number of pulses completed before the fault.
C15_CountedAfterPulse ==
    /\ [](\A t \in Callers :
             pc[t] \in RaisedPcs =>
                 current_position = loc[t].start + loc[t].dir * loc[t].emitted)
    /\ [][(current_position' # current_position /\ ~SettingZero) =>
             /\ step_pin = HIGH
             /\ step_pin' = LOW
             /\ Abs(current_position' - current_position) = 1]_vars

\* STEP LOW raised in the second pulse of a move_steps call: one pulse is
\* counted, STEP is left HIGH
C15_Witness ==
    \E t \in Callers :
        /\ pc[t] = "ms_raised"
        /\ probe.fn = "fault"
        /\ probe.at = "ms_high"
        /\ loc[t].emitted = 1
        /\ step_pin = HIGH
        /\ current_position = loc[t].start + loc[t].dir

\* C16 (as claimed): ENABLE is LOW when an operation has ended on a failure
\* path: a limit stop in move_steps or move_motor, or a driver exception.
C16_FailureLeavesDisabled ==
    \A t \in Callers :
        (\/ pc[t] \in RaisedPcs
         \/ /\ pc[t] = "ms_ret"
            /\ loc[t].emitted < Abs(loc[t].steps)
            /\ MoveStepsLimitHit(current_position, loc[t].dir)
         \/ /\ pc[t] = "mm_ret"
            /\ loc[t].remaining > 0
            /\ MoveMotorLimitHit(current_position, loc[t].dir))
        => enable_pin = LOW

\* a well-formed command: a known keyword, a single number, or s / slow
\* followed by a single number
WellFormedCommand(cmd) ==
    LET parts == Split(cmd)
    IN  \/ cmd \in Keywords
        \/ Len(parts) = 1 /\ ParseFloat(parts[1]).ok
        \/ Len(parts) = 2 /\ parts[1] \in SlowPrefixes /\ ParseFloat(parts[2]).ok

\* C17 (as claimed): a line that is no well-formed command is rejected with no
\* state mutation: no operation is called, and the step counter, the motion
\* fields, the position file and all outputs stay as they were.
C17_InvalidCommandRejected ==
    (probe.fn = "cli" /\ ~WellFormedCommand(probe.cmd)) =>
        /\ probe.call = "none"
        /\ current_position = probe.start
        /\ position_file = SavedText(probe.start)
        /\ ControllerAtRest

\* a thread at one of these positions is inside a `with self._lock` block
InsideLock(t) ==
    IF t = LoopThread THEN pc[t] = "lp_high"
    ELSE pc[t] \notin ({"idle"} \cup WaitPcs)

\* the thread that takes the step holds the lock, or takes and releases it
\* within the step (the short critical sections of the pulse loop)
StepUnderLock ==
    \E t \in Callers \cup {LoopThread} :
        /\ pc'[t] # pc[t]
        /\ \/ lock = t
           \/ t = LoopThread /\ pc[t] \in {"lp_lock1", "lp_lock2"} /\ lock = NoThread

\* C18: every write to current_position, continuous_active,
\* continuous_direction and continuous_delay is made by a thread that holds
\* _lock, and a thread inside a locked block is the holder of the lock, so at
\* most one thread is mutating the step counter at any time.
C18_WritesUnderLock ==
    /\ [](\A t \in Callers \cup {LoopThread} : InsideLock(t) => lock = t)
    /\ [][<<current_position, continuous_active, continuous_direction,
            continuous_delay>>' #
          <<current_position, continuous_active, continuous_direction,
            continuous_delay>> => StepUnderLock]_vars

\* the pulse loop is inside a pulse, holding the lock, while a command waits
\* for the lock
C18_Witness ==
    /\ pc[LoopThread] = "lp_high"
    /\ lock = LoopThread
    /\ pc[Commander] \in WaitPcs

\* C19: reset_position sets the step counter to 0 and saves "0", and no step
\* of it changes ENABLE, DIR, STEP, the mode pins, the PWM duty or the
\* continuous-motion fields.
C19_ResetWithoutMotion ==
    [][\A t \in Callers :
         (pc[t] \in {"rp_wait", "rp_body", "rp_ret"} /\ pc'[t] # pc[t]) =>
             /\ UNCHANGED <<enable_pin, dir_pin, step_pin, mode_pins, pwm_duty>>
             /\ UNCHANGED <<continuous_active, continuous_direction, continuous_delay>>
             /\ IF pc[t] = "rp_body"
                THEN current_position' = 0 /\ position_file' = SavedText(0)
                ELSE UNCHANGED <<current_position, position_file>>]_vars

\* reset_position has run during a half-speed continuous movement: the counter
\* and the file are at 0, the motor is still enabled and the movement active
C19_Witness ==
    \E t \in Callers :
        /\ pc[t] = "rp_ret"
        /\ current_position = 0
        /\ position_file = SavedText(0)
        /\ continuous_active
        /\ enable_pin = HIGH
        /\ mode_pins = SixteenthStep

\* C20 (as claimed): in the server variant every call of move_steps,
\* move_motor or reset_position returns, with the lock released.
C20_ServerMoveReturns ==
    \A t \in Callers :
        (pc[t] \in ServerEntryWaits) ~> (pc[t] = "idle" /\ lock # t)

\* C21: when an iteration of the pulse loop finds
\* |current_position + direction| > MAX_STEPS it emits no pulse, leaves the
\* counter unchanged and sets continuous_active to FALSE; the loop drives STEP
\* HIGH only while continuous_active is TRUE, and only
\* start_continuous_movement sets continuous_active to TRUE again.
C21_LimitStopsLoop ==
    /\ [][(/\ pc[LoopThread] = "lp_lock2"
           /\ pc'[LoopThread] # "lp_lock2"
           /\ continuous_active
           /\ Abs(current_position + lp_direction) > MAX_STEPS)
          => /\ pc'[LoopThread] # "lp_high"
             /\ step_pin' = step_pin
             /\ current_position' = current_position
             /\ continuous_active' = FALSE]_vars
    /\ [][(pc[LoopThread] # "lp_high" /\ pc'[LoopThread] = "lp_high")
          => continuous_active]_vars
    /\ [][(~continuous_active /\ continuous_active')
          => \E t \in Callers : pc[t] = "sc_check" /\ pc'[t] = "sc_ramp"]_vars

\* the pulse loop has stopped a continuous movement at the limit: the movement
\* is inactive and the motor disabled, with the direction and the duty cycle
\* of the movement still in place (no joystick batch has moved the counter)
C21_Witness ==
    /\ ~continuous_active
    /\ continuous_direction # 0
    /\ Abs(current_position + continuous_direction) > MAX_STEPS
    /\ enable_pin = LOW
    /\ pwm_duty \in {50, 85}
    /\ last_joystick_dir = 0
    /\ pc[LoopThread] = "lp_check"

\* C22: a limit stop does not latch.  A move_steps call that starts at
\* +MAX_STEPS or -MAX_STEPS and is directed away from that limit emits and
\* counts all of its pulses; a start_continuous_movement call there emits and
\* counts its ramp pulses and leaves the movement active, and the pulse loop
\* emits its pulse when it is at a limit and directed away from it.
C22_LimitStopIsSoft ==
    /\ [](\A t \in Callers :
            (/\ pc[t] \in {"ms_ret", "sc_ret"}
             /\ Abs(loc[t].start) = MAX_STEPS
             /\ loc[t].dir = -Sign(loc[t].start))
            => /\ pc[t] = "ms_ret" =>
                    (loc[t].steps = 0 \/ loc[t].emitted = Abs(loc[t].steps))
               /\ pc[t] = "sc_ret" =>
                    (loc[t].emitted = RAMP_PULSES /\ continuous_active)
               /\ current_position = loc[t].start + loc[t].dir * loc[t].emitted)
    /\ [][(/\ pc[LoopThread] = "lp_lock2"
           /\ pc'[LoopThread] # "lp_lock2"
           /\ continuous_active
           /\ Abs(current_position) = MAX_STEPS
           /\ lp_direction = -Sign(current_position))
          => (pc'[LoopThread] = "lp_high" /\ step_pin' = HIGH)]_vars

\* the pulse loop stopped a half-speed movement at a limit (the mode pins were
\* not restored), and a later move_steps away from that limit has emitted and
\* counted all of its pulses
C22_Witness ==
    \E t \in Callers :
        /\ pc[t] = "ms_ret"
        /\ Abs(loc[t].start) = MAX_STEPS
        /\ loc[t].dir = -Sign(loc[t].start)
        /\ loc[t].steps # 0
        /\ loc[t].emitted = Abs(loc[t].steps)
        /\ current_position = loc[t].target
        /\ ~continuous_active
        /\ continuous_direction = Sign(loc[t].start)
        /\ mode_pins = SixteenthStep
        /\ last_joystick_dir = 0

\* C23 (as claimed): when a driver call has raised inside the pulse loop, the
\* fault is handled in the loop: continuous_active is FALSE and the loop
\* thread is still running.
C23_LoopFaultHandled ==
    (probe.fn = "fault" /\ probe.thread = LoopThread)
    => (~continuous_active /\ pc[LoopThread] # "lp_dead")

\* C24: a failing write in _save_position never aborts reset_position,
\* go_to_zero or shutdown: no exception leaves the operation, the counter
\* keeps its in-memory value (0 after reset_position and go_to_zero, the
\* current value in shutdown), go_to_zero still drives ENABLE LOW and
\* shutdown still goes on to GPIO.cleanup().
C24_SaveFailureContinues ==
    /\ [](/\ \A t \in Callers : pc[t] \notin {"rp_raised", "gz_raised"}
          /\ pc[MainThread] # "sd_raised")
    /\ [][\A t \in Callers :
            /\ (pc[t] = "rp_body" /\ pc'[t] # "rp_body")
               => (pc'[t] = "rp_ret" /\ current_position' = 0)
            /\ (pc[t] = "gz_finish" /\ pc'[t] # "gz_finish")
               => (pc'[t] = "gz_ret" /\ current_position' = 0 /\ enable_pin' = LOW)]_vars
    /\ [][(pc[MainThread] = "sd_save" /\ pc'[MainThread] # "sd_save")
          => (pc'[MainThread] = "sd_cleanup" /\ current_position' = current_position)]_vars

\* the save at the end of shutdown failed after a move had taken the counter
\* away from the saved value: shutdown has returned, the counter is kept in
\* memory and the file does not hold it
C24_Witness ==
    /\ probe.fn = "save_fault"
    /\ probe.op = "shutdown"
    /\ ShutdownReturned
    /\ current_position # 0
    /\ position_file # SavedText(current_position)

\* C25 (as claimed): after load_position (mod_1.py) or _load_position
\* (mod_2_test.py) has run on a position file that was absent or did not parse
\* as an integer, the file exists and holds "0".
C25_LoadReinitialisesStore ==
    (/\ probe.fn \in {"mod_1", "mod_2_test"}
     /\ \/ probe.input = Absent
        \/ ~ParseInt(Strip(probe.input)).ok)
    => position_file = IntToStr(0)

\* the position a restart would load from the file
PersistedPosition == load_position(position_file).value

C27_BeyondLimitTruncated ==
    (/\ pc[MainThread] = "vis_input"
     /\ probe.fn = "move_steps"
     /\ ~VisInRange(probe.start + probe.steps))
    => Abs(current_position) = VisManual_MAX_STEPS

\* C28: in a start_continuous_movement call that is not the idempotent no-op,
\* ENABLE is HIGH and DIR is at the level of the requested direction from the
\* write of DIR to the end of the ramp, so before the first STEP pulse of the
\* new motion, and the pulse loop neither is inside a pulse nor begins one
\* between the DIR write and the end of the ramp.
C28_SetupBeforeFirstPulse ==
    /\ [](\A t \in Callers :
            pc[t] \in {"sc_ramp", "sc_high"}
            => /\ enable_pin = HIGH
               /\ dir_pin = DirLevel(loc[t].dir)
               /\ continuous_direction = loc[t].dir
               /\ pc[LoopThread] # "lp_high")
    /\ [][\A t \in Callers :
            (pc[t] = "sc_check" /\ pc'[t] = "sc_ramp")
            => (enable_pin' = HIGH /\ dir_pin' = DirLevel(loc[t].dir)
                /\ step_pin' = step_pin /\ step_pin = LOW)]_vars
    /\ [][(pc[LoopThread] # "lp_high" /\ pc'[LoopThread] = "lp_high")
          => \A t \in Callers : pc[t] \notin {"sc_check", "sc_ramp", "sc_high"}]_vars

\* a reversal: the first pulse of the new motion is being emitted with DIR at
\* the new level while the pulse loop, which read the old direction, waits
\* for the lock
C28_Witness ==
    \E t \in Callers :
        /\ pc[t] = "sc_high"
        /\ loc[t].emitted = 0
        /\ step_pin = HIGH
        /\ enable_pin = HIGH
        /\ dir_pin = DirLevel(loc[t].dir)
        /\ pc[LoopThread] = "lp_lock2"
        /\ lp_direction = -loc[t].dir

\* DIR, the number of pulses and the final position of a finished move_steps
\* call of mod_2_test.py are those of mod_1.py
MoveStepsSamePulses(t) ==
    LET m1 == mod_1_move_steps(loc[t].start, loc[t].steps)
    IN  /\ dir_pin = m1.dir_pin
        /\ loc[t].emitted = m1.pulses
        /\ current_position = m1.current_position

\* C29 (as claimed): a move_steps call of mod_2_test.py ends as the move_steps
\* of mod_1.py does for the same start position and argument: the same DIR
\* level, the same number of STEP pulses, the same final position, ENABLE LOW
\* and the final position in the file.
C29_MoveStepsMatchesMod1 ==
    \A t \in Callers :
        pc[t] = "ms_ret"
        => LET m1 == mod_1_move_steps(loc[t].start, loc[t].steps)
           IN  /\ MoveStepsSamePulses(t)
               /\ enable_pin = m1.enable_pin
               /\ position_file = m1.position_file

\* C30 (as claimed): while a pulse of move_motor(direction, ...) of
\* mod_2_test.py is being emitted, DIR is at the level move_motor of mod_1.py
\* writes for `direction`, whatever operations ran before the call.
C30_MoveMotorPulsesFollowDir ==
    \A t \in Callers :
        pc[t] = "mm_high"
        => dir_pin = mod_1_move_motor(loc[t].start, loc[t].dir).dir_pin

\* C31: steps_to_arc carries no sign and returns a normalised pair:
\* steps_to_arc(s) = steps_to_arc(-s) = (m, sec) with m a natural number,
\* 0 <= sec < 60 and 60 m + sec = |s| * 15 / 4.
C31_StepsToArcNormalised ==
    probe.fn = "round_trip" =>
        LET m == probe.arc.arcminutes
            sec == probe.arc.arcsec                      \* sec[1] / sec[2]
        IN  /\ probe.arc = steps_to_arc(-probe.input)
            /\ m \in Nat
            /\ sec[2] > 0
            /\ 0 <= sec[1] /\ sec[1] < 60 * sec[2]
            /\ (60 * m * sec[2] + sec[1]) * 4 = Abs(probe.input) * 15 * sec[2]

\* a negative count was converted to more than an arcminute and a fractional
\* number of arcseconds
C31_Witness ==
    /\ probe.fn = "round_trip"
    /\ probe.input < 0
    /\ probe.arc.arcminutes > 0
    /\ probe.arc.arcsec[1] % probe.arc.arcsec[2] # 0
    /\ probe.arc = steps_to_arc(-probe.input)

\* the direction a thread inside a pulse will add to current_position
PulseDirection(t) == IF t = LoopThread THEN lp_direction ELSE loc[t].dir

\* C32 (as claimed): while a thread is inside a STEP pulse, after which it
\* adds d to current_position, the DIR line is at the level for d.  Stated
\* for the pulses of the pulse loop, of the ramp of start_continuous_movement,
\* of move_steps and of go_to_zero (the joystick batches of move_motor are
\* the subject of C30).
C32_CounterTracksDirection ==
    \A t \in Callers \cup {LoopThread} :
        pc[t] \in PulseWaitPcs \ {"mm_high"}
        => dir_pin = DirLevel(PulseDirection(t))

\* C33: when stop_continuous_movement or go_to_zero returns, the movement is
\* inactive and the pulse loop is not inside a pulse (and after go_to_zero the
\* counter is 0); while the movement is inactive no step of the pulse loop
\* changes STEP or current_position, wherever the loop is in its iteration;
\* and only start_continuous_movement makes the movement active again.
C33_QuietAfterStop ==
    /\ [](\A t \in Callers :
            pc[t] \in {"st_ret", "gz_ret"}
            => /\ ~continuous_active
               /\ pc[LoopThread] # "lp_high"
               /\ pc[t] = "gz_ret" => current_position = 0)
    /\ [][(~continuous_active /\ pc'[LoopThread] # pc[LoopThread])
          => UNCHANGED <<step_pin, current_position>>]_vars
    /\ [][(~continuous_active /\ continuous_active')
          => \E t \in Callers : pc[t] = "sc_check"]_vars

\* stop_continuous_movement has returned while an iteration of the pulse loop
\* that read the parameters of the movement waits for its second locked
\* section
C33_Witness ==
    \E t \in Callers :
        /\ pc[t] = "st_ret"
        /\ ~continuous_active
        /\ pc[LoopThread] = "lp_lock2"
        /\ lp_direction # 0

\* C34 (as claimed): while a pulse of move_steps or go_to_zero is being
\* emitted, the microstep mode pins are at the 1/4-step setting.
C34_FiniteMovesQuarterStep ==
    \A t \in Callers :
        pc[t] \in {"ms_high", "gz_high"} => mode_pins = QuarterStep

C36_EveryCallReturns ==
    /\ [](\A t \in Callers : pc[t] \in WaitPcs => lock # t)
    /\ [](\A t \in Callers : pc[t] = "idle" => lock # t)
    /\ \A t \in Callers : (pc[t] \in WaitPcs) ~> (pc[t] = "idle")

\* a call waits for the lock while the pulse loop holds it inside a pulse
C36_Witness ==
    \E t \in Callers :
        /\ pc[t] \in WaitPcs
        /\ lock = LoopThread
        /\ pc[LoopThread] = "lp_high"
        /\ continuous_active

\* C37: once stop_event is set, controller.shutdown() is eventually run to
\* its end, and it is run once only: shutdown starts from the join of main
\* and nowhere else, and having returned it does not start again.
C37_ShutdownOnceAfterStop ==
    /\ (probe.fn = "main" /\ probe.stop_event) ~> ShutdownReturned
    /\ [][pc'[MainThread] # pc[MainThread] =>
             /\ pc[MainThread] # "sd_done"
             /\ pc'[MainThread] # "main_join"]_vars
====
